---- MODULE Spec2Model ----
(***************************************************************************)
(* Model of the incremental directory-size aggregation engine of copycut:  *)
(* the useFs hook (src/src/hooks/fs/useFs.ts) and its progress refs        *)
(* (useFsProgressRefs, second half of src/src/hooks/useContextMenu.ts).    *)
(* One pane is modelled.  The backend (list_dir, get_cached_sizes,         *)
(* ensure_path_sizer and the three dir_size:* event channels) is the       *)
(* environment: its replies and events are chosen nondeterministically.    *)
(***************************************************************************)
EXTENDS Integers, Sequences, FiniteSets, TLC

\* ------------------------------------------------------------------ bounds
MaxNav == 2          \* number of loadPath calls explored
MaxBytes == 1        \* small byte counts carried by cache records and events
MaxEffects == 2      \* runs of the subscription effect that are live at the same time

\* ------------------------------------------------------- program constants
BurstThreshold == 8 * 1024 * 1024
ScanMarker == "(scanning...)"    \* the source writes a one-character ellipsis

\* --------------------------------------------------------------- utilities
Max(a, b) == IF a >= b THEN a ELSE b

Min(a, b) == IF a <= b THEN a ELSE b

Sign(n) == IF n < 0 THEN -1 ELSE IF n > 0 THEN 1 ELSE 0

RECURSIVE SumOver(_, _)
SumOver(f, S) ==
    IF S = {} THEN 0
    ELSE LET x == CHOOSE y \in S : TRUE IN f[x] + SumOver(f, S \ {x})

SumMap(f) == SumOver(f, DOMAIN f)

EmptyMap == [x \in {} |-> 0]

MapGet(m, k, dflt) == IF k \in DOMAIN m THEN m[k] ELSE dflt

MapSet(m, k, v) == [x \in (DOMAIN m) \cup {k} |-> IF x = k THEN v ELSE m[x]]

RemoveAt(q, i) == SubSeq(q, 1, i - 1) \o SubSeq(q, i + 1, Len(q))

\* ------------------------------------------------------ the view of a pane
DefaultView == [showHidden |-> FALSE, sortKey |-> "name", sortDir |-> "asc", dirsFirst |-> TRUE]

\* ------------------------------------------------ the environment's world
RootPath == "/h"
Paths == {"/h", "/h/X"}

FileEntry(n, d, s, m) == [name |-> n, is_dir |-> d, size |-> s, modified |-> m]

\* what list_dir returns, in the order the Directory Lister happens to use
ListDir(p) ==
    IF p = "/h"
    THEN << FileEntry("Y", TRUE, 0, <<"2024-01-03", "10:00">>),
            FileEntry("a.txt", FALSE, 1, <<"2024-01-01", "10:00">>),
            FileEntry(".cfg", FALSE, 1, <<"2024-01-02", "10:00">>),
            FileEntry("X", TRUE, 0, <<"2024-01-02", "10:00">>) >>
    ELSE IF p = "/s"
    THEN << FileEntry("a.txt", FALSE, 100, <<"2024-01-01", "10:00">>),
            FileEntry("Y", TRUE, 0, <<"2024-01-03", "10:00">>),
            FileEntry("b.md", FALSE, 200, <<>>),
            FileEntry("X", TRUE, 0, <<"2024-01-02", "10:00">>) >>
    ELSE << FileEntry("b.md", FALSE, 2, <<>>),
            FileEntry("a.txt", FALSE, 1, <<"2024-01-01", "10:00">>) >>

\* the child the Coordinator reports on (X is only ever served from the cache)
EventNames == {"Y"}

\* rank of a name when names are compared code unit by code unit
NameKeyCodeUnit(n) ==
    CASE n = ".cfg" -> 1
      [] n = "A.TXT" -> 2
      [] n = "X" -> 3
      [] n = "Y" -> 4
      [] n = "a.txt" -> 5
      [] n = "b.md" -> 6
      [] OTHER -> 7

\* collation rank of a name under localeCompare(..., {sensitivity: "base"})
NameKey(n) ==
    CASE n = ".cfg" -> 1
      [] n = "a.txt" -> 2
      [] n = "A.TXT" -> 2
      [] n = "b.md" -> 3
      [] n = "X" -> 4
      [] n = "Y" -> 5
      [] OTHER -> 6

\* rank of an extension string under localeCompare
ExtKey(e) ==
    CASE e = "" -> 0
      [] e = "md" -> 1
      [] e = "txt" -> 2
      [] OTHER -> 3

\* rank of a modified string under localeCompare ("" sorts first)
ModKey(m) ==
    CASE m = <<>> -> 0
      [] m = <<"2024-01-01", "10:00">> -> 1
      [] m = <<"2024-01-02", "10:00">> -> 2
      [] m = <<"2024-01-03", "10:00">> -> 3
      [] OTHER -> 4

StartsWithDot(n) == n = ".cfg"

\* ---------------------------------------------------------- pure helpers
\* fileDataHelpers.ts: extOf
extOf(n) ==
    CASE n = "a.txt" -> "txt"
      [] n = "A.TXT" -> "txt"
      [] n = "b.md" -> "md"
      [] OTHER -> ""

\* fileDataHelpers.ts: fmtSize; toFixed(1) is carried as whole part and tenth
Fixed1(b, unit) ==
    LET t == (b * 10 + (unit \div 2)) \div unit
    IN  ToString(t \div 10) \o "." \o ToString(t % 10)

fmtSize(b) ==
    IF b < 1024 THEN ToString(b) \o " B"
    ELSE IF b < 1048576 THEN Fixed1(b, 1024) \o " KB"
    ELSE IF b < 1073741824 THEN Fixed1(b, 1048576) \o " MB"
    ELSE Fixed1(b, 1073741824) \o " GB"

getDate(m) == IF m # <<>> THEN m[1] ELSE ""

getTime(m) == IF m # <<>> THEN m[2] ELSE ""

\* fileDataHelpers.ts: compare
compare(a, b, v) ==
    IF v.dirsFirst /\ a.is_dir /\ ~b.is_dir THEN -1
    ELSE IF v.dirsFirst /\ ~a.is_dir /\ b.is_dir THEN 1
    ELSE LET res ==
                 CASE v.sortKey = "name" -> Sign(NameKey(a.name) - NameKey(b.name))
                   [] v.sortKey = "size" -> a.size - b.size
                   [] v.sortKey = "date" -> Sign(ModKey(a.modified) - ModKey(b.modified))
                   [] v.sortKey = "type" ->
                        LET r1 == Sign(ExtKey(extOf(a.name)) - ExtKey(extOf(b.name)))
                        IN  IF r1 = 0 THEN Sign(NameKey(a.name) - NameKey(b.name)) ELSE r1
         IN  IF v.sortDir = "desc" THEN -res ELSE res

\* Array.prototype.sort is stable: an entry is inserted after every entry
\* that does not compare greater than it
RECURSIVE InsertSorted(_, _, _)
InsertSorted(e, s, v) ==
    IF s = <<>> THEN <<e>>
    ELSE IF compare(s[Len(s)], e, v) <= 0 THEN Append(s, e)
    ELSE Append(InsertSorted(e, SubSeq(s, 1, Len(s) - 1), v), s[Len(s)])

RECURSIVE SortEntries(_, _)
SortEntries(s, v) ==
    IF s = <<>> THEN <<>>
    ELSE InsertSorted(s[Len(s)], SortEntries(SubSeq(s, 1, Len(s) - 1), v), v)

FilterHidden(s, v) ==
    IF v.showHidden THEN s ELSE SelectSeq(s, LAMBDA e : ~StartsWithDot(e.name))

\* loadPath lines 140-142: the filtered, sorted listing
Sorted(p, v) == SortEntries(FilterHidden(ListDir(p), v), v)

\* an identity built from the path and the sort key
scanKeyWithSort(p, v) == p \o "|" \o v.sortKey

\* loadPath line 136: ignores is the constant empty list, so the sorted,
\* comma-joined ignore set is the empty string
scanKeyOf(p, v) ==
    p \o "|" \o (IF v.showHidden THEN "true" ELSE "false") \o "|" \o ""

\* ------------------------------------------------------------------- state
VARIABLES
    loadSeq,             \* loadSeqRef: the navigation token
    currentScanKey,      \* currentScanKeyRef: the active scan identity
    currentPath,         \* currentPathRef / currentPath state
    knownDirBytes,       \* knownDirBytesRef: name -> last accepted bytes
    nameToRowIndex,      \* nameToRowIndexRef: name -> 0-based row index
    runningTotal,        \* runningTotalRef
    totalBytes,          \* totalBytes state shown by the status line
    itemsCount,          \* itemsCount state
    scanningDirs,        \* scanningDirsRef
    pendingProgress,     \* pendingProgressRef: name -> unflushed bytes
    flushTimer,          \* flushTimerRef: NoTimer or the key its closure captured
    timers,              \* the setTimeout timers still to fire, by captured key
    lastFlushedBytes,    \* lastFlushedBytesRef
    currentFlushScanKey, \* currentFlushScanKeyRef
    rows,                \* rows state (the row projection)
    loads,               \* the loadPath calls in flight, by token: where each one is,
                         \* its needsScan local and (history) whether its cache
                         \* reply reported every child completed
    effects,             \* live runs of the subscription effect: listens done, cleaned up
    leaked,              \* channels with a listener that no cleanup will ever remove
    eventsReady,         \* whether eventsReadyPromiseRef has been resolved
    ensureCalls,         \* history: the ensure_path_sizer invocations made
    epoch,               \* history: facts about the epoch opened by the last prefill
    order                \* history: the delivery-order experiment of SpecOrder

engineVars == << knownDirBytes, nameToRowIndex, runningTotal, totalBytes, itemsCount,
                 scanningDirs, pendingProgress, flushTimer, timers, lastFlushedBytes,
                 currentFlushScanKey, rows >>

navVars == << loadSeq, currentScanKey, currentPath, loads >>

subVars == << effects, leaked, eventsReady >>

vars == << loadSeq, currentScanKey, currentPath, knownDirBytes, nameToRowIndex,
           runningTotal, totalBytes, itemsCount, scanningDirs, pendingProgress,
           flushTimer, timers, lastFlushedBytes, currentFlushScanKey, rows, loads,
           effects, leaked, eventsReady, ensureCalls, epoch, order >>

NoTimer == "none"

ScanKeys == { scanKeyOf(p, DefaultView) : p \in Paths }

\* byte counts the Coordinator reports: small ones and one burst-sized jump

\* the three channels, in the order the effect registers them
Channels == 1 .. 3
ChProgress == 1
ChChild == 2
ChSummary == 3

\* a listener is removed only by the cleanup of its run, and only when it
\* had been pushed to unsubs before that cleanup ran (lines 122-124)
Attached(ch) ==
    \/ ch \in leaked
    \/ \E r \in DOMAIN effects : ~effects[r].cleaned /\ ch <= effects[r].reg

Mounted == effects # <<>> /\ ~effects[Len(effects)].cleaned

\* a loadPath call that has returned or thrown is forgotten
Drop(t) == [u \in (DOMAIN loads) \ {t} |-> loads[u]]

\* a handler that takes every name as unknown so far
KnownForgotten(n) == 0

\* "knownDirBytesRef.current.get(name) ?? 0"
Known(n) == MapGet(knownDirBytes, n, 0)

\* a listener that forgets to compare the identity
IsCurrentAny(p) == TRUE

\* the guard "p.scan_key !== currentScanKeyRef.current" of the three listeners
IsCurrent(p) == p.scan_key = currentScanKey

\* history: an event is stale when it names another identity than the active one
Stale(p) == p.scan_key # currentScanKey

NoteStale(p) == [epoch EXCEPT !.stale = @ \/ Stale(p)]

UpRow == [displayName |-> "..", isDir |-> TRUE, size |-> <<"">>, date |-> <<"", "">>,
          specialUp |-> TRUE, realName |-> ""]

HasMarker(r) == \E i \in DOMAIN r.size : r.size[i] = ScanMarker

\* history: no prefill has run yet
NoEpoch == [n |-> 0, token |-> 0, cacheFailed |-> FALSE, levelFiles |-> 0, incomplete |-> {}, finalized |-> {},
            summary |-> FALSE, cleared |-> FALSE, allCompleted |-> TRUE,
            stale |-> FALSE]

NoOrder == [round |-> 0, pool |-> {}, cache |-> <<>>, delivered |-> {}, first |-> <<>>,
            again |-> FALSE]

Init ==
    /\ loadSeq = 0
    /\ currentScanKey = ""
    /\ currentPath = ""
    /\ knownDirBytes = EmptyMap
    /\ nameToRowIndex = EmptyMap
    /\ runningTotal = 0
    /\ totalBytes = 0
    /\ itemsCount = 0
    /\ scanningDirs = {}
    /\ pendingProgress = EmptyMap
    /\ flushTimer = NoTimer
    /\ timers = <<>>
    /\ lastFlushedBytes = 0
    /\ currentFlushScanKey = ""
    /\ rows = <<>>
    /\ loads = EmptyMap
    /\ effects = << [reg |-> 0, cleaned |-> FALSE] >>
    /\ leaked = {}
    /\ eventsReady = FALSE
    /\ ensureCalls = {}
    /\ epoch = NoEpoch
    /\ order = NoOrder

\* -------------------------------------------------- useFsProgressRefs
\* a flush that takes the pending value as it is
FlushRaw(prev, bytes) == bytes

\* flushProgressNow line 77: the monotonic clamp of a pending value
FlushBounded(prev, bytes) == Max(prev, bytes)

\* flushProgressNow: the names of a pending map that the flush really updates
FlushUpdates(pend) ==
    { n \in DOMAIN pend :
        n \in scanningDirs /\ FlushBounded(Known(n), pend[n]) # Known(n) }

\* flushProgressNow lines 94-104: the provisional label of every updated row
FlushRows(pend) ==
    [ i \in DOMAIN rows |->
        IF \E n \in FlushUpdates(pend) :
               n \in DOMAIN nameToRowIndex /\ nameToRowIndex[n] + 1 = i
        THEN LET n == CHOOSE m \in FlushUpdates(pend) :
                          m \in DOMAIN nameToRowIndex /\ nameToRowIndex[m] + 1 = i
             IN  [rows[i] EXCEPT !.size =
                      << fmtSize(FlushBounded(Known(n), pend[n])), " ", ScanMarker >>]
        ELSE rows[i] ]

\* a flush that updates the rows and leaves the total alone
FlushTotalNone(dlt) == 0

\* flushProgressNow line 83: "totalDelta += (bounded - prev)"
FlushTotal(dlt) == SumMap(dlt)

\* flushProgressNow(expectedScanKey) applied to the pending map pend
flushProgressNow(expectedScanKey, pend) ==
    IF expectedScanKey # currentScanKey
    THEN /\ pendingProgress' = EmptyMap
         /\ UNCHANGED << knownDirBytes, runningTotal, totalBytes, rows >>
    ELSE IF DOMAIN pend = {}
    THEN /\ pendingProgress' = pend
         /\ UNCHANGED << knownDirBytes, runningTotal, totalBytes, rows >>
    ELSE LET upd == FlushUpdates(pend)
             bnd == [n \in upd |-> FlushBounded(Known(n), pend[n])]
             dlt == [n \in upd |-> bnd[n] - Known(n)]
             totalDelta == FlushTotal(dlt)
         IN  /\ pendingProgress' = EmptyMap
             /\ knownDirBytes' = [n \in (DOMAIN knownDirBytes) \cup upd |->
                                     IF n \in upd THEN bnd[n] ELSE knownDirBytes[n]]
             /\ IF totalDelta > 0
                THEN /\ runningTotal' = runningTotal + totalDelta
                     /\ totalBytes' = runningTotal + totalDelta
                ELSE UNCHANGED << runningTotal, totalBytes >>
             /\ rows' = FlushRows(pend)

\* a handler that drops the reference and lets the timer run
CancelledNot(ts, ref) == ts

\* "if (flushTimerRef.current) { clearTimeout(flushTimerRef.current); ... }":
\* the timers left when the referenced one is cancelled
Cancelled(ts, ref) ==
    IF ref = NoTimer \/ \A i \in DOMAIN ts : ts[i] # ref THEN ts
    ELSE RemoveAt(ts, CHOOSE i \in DOMAIN ts : ts[i] = ref /\ \A j \in 1 .. i - 1 : ts[j] # ref)

\* scheduleFlushProgress(scanKey)
scheduleFlushProgress(scanKey) ==
    LET changed == currentFlushScanKey # scanKey
        timer0 == IF changed THEN NoTimer ELSE flushTimer
        timers0 == IF changed THEN Cancelled(timers, flushTimer) ELSE timers
    IN  /\ currentFlushScanKey' = scanKey
        /\ lastFlushedBytes' = IF changed THEN 0 ELSE lastFlushedBytes
        /\ flushTimer' = IF timer0 # NoTimer THEN timer0 ELSE scanKey
        /\ timers' = IF timer0 # NoTimer THEN timers0 ELSE Append(timers0, scanKey)

\* the setTimeout callback of scheduleFlushProgress
TimerFire ==
    /\ \E i \in DOMAIN timers :
           /\ timers' = RemoveAt(timers, i)
           /\ flushTimer' = NoTimer
           /\ flushProgressNow(timers[i], pendingProgress)
    /\ UNCHANGED << nameToRowIndex, itemsCount, scanningDirs, lastFlushedBytes,
                    currentFlushScanKey, navVars, subVars, ensureCalls, epoch >>

\* ------------------------------------------------ useFs: event listeners
\* a progress handler that accepts every name
RequestedAny(name) == TRUE

\* dir_size:progress line 40
Requested(name) == name \in scanningDirs

\* a progress handler that keeps the latest value
PendingLatest(prev, bytes) == bytes

\* dir_size:progress line 45
PendingMerged(prev, bytes) == Max(prev, bytes)

\* dir_size:progress line 48

\* dir_size:progress listener
OnProgress(p) ==
    /\ Attached(ChProgress)
    /\ epoch' = NoteStale(p)
    /\ UNCHANGED << navVars, subVars, ensureCalls, nameToRowIndex, itemsCount,
                    scanningDirs >>
    /\ IF ~IsCurrent(p) \/ ~Requested(p.name)
       THEN UNCHANGED << knownDirBytes, runningTotal, totalBytes, pendingProgress,
                         flushTimer, timers, lastFlushedBytes, currentFlushScanKey, rows >>
       ELSE LET prev == MapGet(pendingProgress, p.name, 0)
                nextVal == PendingMerged(prev, p.bytes)
                pend == MapSet(pendingProgress, p.name, nextVal)
            IN  IF (nextVal - lastFlushedBytes) >= BurstThreshold
                THEN /\ lastFlushedBytes' = nextVal
                     /\ flushTimer' = NoTimer
                     /\ timers' = Cancelled(timers, flushTimer)
                     /\ flushProgressNow(currentScanKey, pend)
                     /\ UNCHANGED currentFlushScanKey
                ELSE /\ pendingProgress' = pend
                     /\ scheduleFlushProgress(currentScanKey)
                     /\ UNCHANGED << knownDirBytes, runningTotal, totalBytes, rows >>

\* a child handler that leaves the pending delta of the finished name
PendingKeptAtChild(m, name) == m

\* dir_size:child line 67
PendingAfterChild(m, name) == [x \in (DOMAIN m) \ {name} |-> m[x]]

\* a child handler that takes the reported value as it is
ChildRaw(prev, bytes) == bytes

\* dir_size:child line 70: the monotonic clamp of the final value
ChildBounded(prev, bytes) == Max(prev, bytes)

\* a child handler that leaves the finished name in the scanning set
ScanningKept(s, name) == s

\* dir_size:child line 73
ScanningAfterChild(s, name) == s \ {name}

\* a child handler that leaves the row as it was
ChildRowsKept(name, boundedFinal) == rows

\* dir_size:child lines 81-89: the exact label of the finished row
ChildRows(name, boundedFinal) ==
    IF name \notin DOMAIN nameToRowIndex THEN rows
    ELSE LET i == nameToRowIndex[name] + 1
         IN  IF i \in DOMAIN rows
             THEN [rows EXCEPT ![i] = [rows[i] EXCEPT
                                          !.displayName = rows[i].realName \o " /",
                                          !.size = << fmtSize(boundedFinal) >>]]
             ELSE rows

\* dir_size:child listener
OnChild(p) ==
    /\ Attached(ChChild)
    /\ epoch' = IF Stale(p) THEN NoteStale(p)
                 ELSE [epoch EXCEPT !.finalized = @ \cup {p.name}]
    /\ UNCHANGED << navVars, subVars, ensureCalls, nameToRowIndex, itemsCount,
                    flushTimer, timers, lastFlushedBytes, currentFlushScanKey >>
    /\ IF ~IsCurrent(p)
       THEN UNCHANGED << knownDirBytes, runningTotal, totalBytes, pendingProgress,
                         scanningDirs, rows >>
       ELSE LET prev == Known(p.name)
                boundedFinal == ChildBounded(prev, p.bytes)
                delta == boundedFinal - prev
            IN  /\ pendingProgress' = PendingAfterChild(pendingProgress, p.name)
                /\ knownDirBytes' = MapSet(knownDirBytes, p.name, boundedFinal)
                /\ scanningDirs' = ScanningAfterChild(scanningDirs, p.name)
                /\ IF delta > 0
                   THEN /\ runningTotal' = runningTotal + delta
                        /\ totalBytes' = runningTotal + delta
                   ELSE UNCHANGED << runningTotal, totalBytes >>
                /\ rows' = ChildRows(p.name, boundedFinal)

\* a summary handler that leaves the scanning set as it is
ScanningKeptAtSummary(s) == s

\* dir_size:summary line 107
ScanningAfterSummary(s) == {}

\* a summary handler that takes the reported total as it is
SummaryRaw(cur, reported) == reported

\* dir_size:summary line 104: the total never drops
SummaryTotal(cur, reported) == Max(cur, reported)

\* dir_size:summary lines 109-115: every directory row gets its plain display name
SummaryRows ==
    [ i \in DOMAIN rows |->
        IF ~rows[i].isDir \/ rows[i].specialUp THEN rows[i]
        ELSE IF rows[i].realName # ""
             THEN [rows[i] EXCEPT !.displayName = rows[i].realName \o " /"]
             ELSE rows[i] ]

\* a summary handler that leaves the pending deltas for the next flush
PendingKeptAtSummary(m) == m

\* dir_size:summary line 100: "pendingProgressRef.current.clear()"
PendingAfterSummary(m) == EmptyMap

\* dir_size:summary listener
OnSummary(p) ==
    /\ Attached(ChSummary)
    /\ UNCHANGED << navVars, subVars, ensureCalls, nameToRowIndex, itemsCount,
                    knownDirBytes, lastFlushedBytes, currentFlushScanKey >>
    /\ epoch' = IF Stale(p) THEN NoteStale(p) ELSE [epoch EXCEPT !.summary = TRUE]
    /\ IF ~IsCurrent(p)
       THEN UNCHANGED << runningTotal, totalBytes, pendingProgress, flushTimer, timers,
                         scanningDirs, rows >>
       ELSE /\ pendingProgress' = PendingAfterSummary(pendingProgress)
            /\ flushTimer' = NoTimer
            /\ timers' = Cancelled(timers, flushTimer)
            /\ runningTotal' = SummaryTotal(runningTotal, p.bytes)
            /\ totalBytes' = SummaryTotal(runningTotal, p.bytes)
            /\ scanningDirs' = ScanningAfterSummary(scanningDirs)
            /\ rows' = SummaryRows

\* ------------------------------------------- useFs: subscription effect
\* one await listen(...) of the async registration of run r resolves; after
\* the third, line 119 resolves the events-ready promise, and every loadPath
\* waiting on it resumes at line 241 before anything else runs
Waiting == { t \in DOMAIN loads : loads[t].pc = "barrier" }

\* loadPath lines 241-251 for the calls in T: where each goes next
AfterBarrier(T) ==
    [ t \in { u \in DOMAIN loads : u \notin T \/ loads[u].needsScan } |->
        IF t \in T THEN [loads[t] EXCEPT !.pc = "ensure"] ELSE loads[t] ]

\* the ensure_path_sizer invocations made by the calls in T
EnsureRecords(T, attached, seq) ==
    { [token |-> t, attached |-> attached, cur |-> (t = seq),
       replyComplete |-> loads[t].replyComplete] :
        t \in { u \in T : loads[u].needsScan } }

\* a run that was cleaned up and has finished registering plays no part any more
RegisterStep(r) ==
    LET run == effects[r]
        ch == run.reg + 1
        eff == IF run.cleaned /\ ch = 3 THEN RemoveAt(effects, r)
               ELSE [effects EXCEPT ![r].reg = ch]
        lk == IF run.cleaned THEN leaked \cup {ch} ELSE leaked
        attachedAfter == \A c \in Channels :
                             \/ c \in lk
                             \/ \E i \in DOMAIN eff : ~eff[i].cleaned /\ c <= eff[i].reg
    IN
    /\ run.reg < 3
    /\ effects' = eff
    /\ leaked' = lk
    /\ IF ch = 3
       THEN /\ eventsReady' = TRUE
            /\ IF eventsReady
               THEN UNCHANGED << loads, ensureCalls >>
               ELSE /\ loads' = AfterBarrier(Waiting)
                    /\ ensureCalls' = ensureCalls \cup
                           EnsureRecords(Waiting, attachedAfter, loadSeq)
       ELSE UNCHANGED << eventsReady, loads, ensureCalls >>
    /\ UNCHANGED << engineVars, loadSeq, currentScanKey, currentPath, epoch >>

\* the cleanup returned by the effect (lines 122-128)
EffectCleanup ==
    /\ Mounted
    /\ effects' = IF effects[Len(effects)].reg = 3
                   THEN RemoveAt(effects, Len(effects))
                   ELSE [effects EXCEPT ![Len(effects)].cleaned = TRUE]
    /\ scanningDirs' = {}
    /\ pendingProgress' = EmptyMap
    /\ flushTimer' = NoTimer
    /\ timers' = Cancelled(timers, flushTimer)
    /\ epoch' = [epoch EXCEPT !.cleared = TRUE]
    /\ UNCHANGED << knownDirBytes, nameToRowIndex, runningTotal, totalBytes, itemsCount,
                    lastFlushedBytes, currentFlushScanKey, rows, navVars, eventsReady,
                    leaked, ensureCalls >>

\* the effect body runs again after a cleanup (the refs survive)
EffectSetup ==
    /\ ~Mounted
    /\ Len(effects) < MaxEffects
    /\ effects' = Append(effects, [reg |-> 0, cleaned |-> FALSE])
    /\ UNCHANGED << engineVars, navVars, eventsReady, leaked, ensureCalls, epoch >>

\* ----------------------------------------------------- useFs: loadPath
\* loadPath lines 133-140: bump the token, publish the scan key, ask for the listing
NavigateView(p, v) ==
    /\ Mounted
    /\ loadSeq < MaxNav
    /\ loadSeq' = loadSeq + 1
    /\ currentScanKey' = scanKeyOf(p, v)
    /\ loads' = MapSet(loads, loadSeq + 1,
                       [pc |-> "list", path |-> p, view |-> v, needsScan |-> FALSE,
                        replyComplete |-> FALSE])
    /\ UNCHANGED << engineVars, currentPath, subVars, ensureCalls, epoch >>

\* loadPath called by a pane that has the default view (line 135)
Navigate(p) == NavigateView(p, DefaultView)

\* list_dir resolves; lines 141-157 compute locals and ask the cache
ListReply(t) ==
    /\ loads[t].pc = "list"
    /\ loads' = [loads EXCEPT ![t].pc = "cache"]
    /\ UNCHANGED << engineVars, loadSeq, currentScanKey, currentPath, subVars,
                    ensureCalls, epoch >>

\* list_dir rejects: loadPath has no handler, the call ends here
ListFail(t) ==
    /\ loads[t].pc = "list"
    /\ loads' = Drop(t)
    /\ UNCHANGED << engineVars, loadSeq, currentScanKey, currentPath, subVars,
                    ensureCalls, epoch >>

Null == <<>>

\* a cache reply per child: no record, or [bytes, items, completed]
CacheOpts == {Null} \cup { <<b, 0, c>> : b \in 1 .. MaxBytes, c \in BOOLEAN }

ChildDirs(sorted) == SelectSeq(sorted, LAMBDA e : e.is_dir)

\* lines 191-200: the cache record of entry e, its bytes and its completed flag
Maybe(e, childDirs, cached) ==
    IF \E i \in DOMAIN childDirs : childDirs[i].name = e.name
    THEN cached[CHOOSE i \in DOMAIN childDirs :
                    /\ childDirs[i].name = e.name
                    /\ \A j \in DOMAIN childDirs : childDirs[j].name = e.name => i <= j]
    ELSE Null

\* a prefill that forgets the cached bytes
InitialBytesZero(maybe) == 0

InitialBytes(maybe) == IF maybe # Null THEN maybe[1] ELSE 0

\* a prefill that never trusts the completed flag
CompletedNever(maybe) == FALSE

Completed(maybe) == IF maybe # Null THEN maybe[3] ELSE FALSE

\* lines 180-186 and 210-218: the row built for entry e
BuildRow(e, maybe) ==
    IF ~e.is_dir
    THEN [displayName |-> e.name, isDir |-> FALSE, size |-> << fmtSize(e.size) >>,
          date |-> << getDate(e.modified), getTime(e.modified) >>,
          specialUp |-> FALSE, realName |-> e.name]
    ELSE [displayName |-> e.name \o " /", isDir |-> TRUE,
          size |-> IF Completed(maybe)
                   THEN << fmtSize(InitialBytes(maybe)) >>
                   ELSE << fmtSize(InitialBytes(maybe)),
                           IF InitialBytes(maybe) # 0 THEN " " ELSE "", ScanMarker >>,
          date |-> << getDate(e.modified), getTime(e.modified) >>,
          specialUp |-> FALSE, realName |-> e.name]

\* a prefill that leaves the files of the level out of the total
LevelFilesNone(sorted) == 0

\* line 145
LevelFilesBytes(sorted) ==
    LET files == SelectSeq(sorted, LAMBDA e : ~e.is_dir)
    IN  SumMap([i \in DOMAIN files |-> files[i].size])

\* lines 176-220: what the loop over the sorted listing leaves behind
PrefillKnown(childDirs, cached) ==
    [ n \in { childDirs[i].name : i \in DOMAIN childDirs } |->
        InitialBytes(Maybe([name |-> n], childDirs, cached)) ]

\* a prefill that takes every child directory for scanning
PrefillScanningAll(childDirs, cached) ==
    { childDirs[i].name : i \in DOMAIN childDirs }

PrefillScanning(childDirs, cached) ==
    { n \in { childDirs[i].name : i \in DOMAIN childDirs } :
        ~Completed(Maybe([name |-> n], childDirs, cached)) }

PrefillRows(sorted, childDirs, cached) ==
    << UpRow >> \o
    [ i \in DOMAIN sorted |-> BuildRow(sorted[i], Maybe(sorted[i], childDirs, cached)) ]

\* an index that forgets the synthetic parent row
PrefillIndexZeroBased(sorted) ==
    [ n \in { sorted[i].name : i \in DOMAIN sorted } |->
        (CHOOSE i \in DOMAIN sorted : sorted[i].name = n) - 1 ]

PrefillIndex(sorted) ==
    [ n \in { sorted[i].name : i \in DOMAIN sorted } |->
        CHOOSE i \in DOMAIN sorted :
            /\ sorted[i].name = n
            /\ \A j \in DOMAIN sorted : sorted[j].name = n => j <= i ]

\* history: what the cache reply said, independently of how the loop reads it
ReplyIncomplete(childDirs, cached) ==
    { childDirs[j].name : j \in { k \in DOMAIN childDirs : cached[k] = Null \/ ~cached[k][3] } }

\* a continuation that paints whatever its token
SupersededNever(t) == FALSE

\* line 161: "if (token !== loadSeqRef.current) return"
Superseded(t) == t # loadSeq

\* a prefill total that leaves out what the cache knows of the directories
PrefillTotalFilesOnly(sorted, known) == LevelFilesBytes(sorted)

\* line 227: "runningTotalRef.current = levelFilesBytes + sumCachedDirs"
PrefillTotal(sorted, known) == LevelFilesBytes(sorted) + SumMap(known)

\* lines 161-237: the token check, the reset and the prefill, run in one go
\* when get_cached_sizes has answered cached; then the events-ready barrier
PrefillWith(t, sorted, childDirs, cached, known, scanning, failed) ==
    LET needsScan == scanning # {}
        total == PrefillTotal(sorted, known)
        nowLoads == [loads EXCEPT ![t].pc = "barrier", ![t].needsScan = needsScan,
                                  ![t].replyComplete = ReplyIncomplete(childDirs, cached) = {}]
    IN
    /\ UNCHANGED << loadSeq, currentScanKey, subVars >>
    /\ IF Superseded(t)
       THEN /\ loads' = Drop(t)
            /\ UNCHANGED << engineVars, currentPath, ensureCalls, epoch >>
       ELSE /\ knownDirBytes' = known
            /\ scanningDirs' = scanning
            /\ pendingProgress' = EmptyMap
            /\ flushTimer' = NoTimer
            /\ timers' = Cancelled(timers, flushTimer)
            /\ rows' = PrefillRows(sorted, childDirs, cached)
            /\ nameToRowIndex' = PrefillIndex(sorted)
            /\ itemsCount' = Len(sorted)
            /\ runningTotal' = total
            /\ totalBytes' = total
            /\ currentPath' = loads[t].path
            /\ UNCHANGED << lastFlushedBytes, currentFlushScanKey >>
            /\ epoch' = [n |-> epoch.n + 1,
                         token |-> t,
                         cacheFailed |-> failed,
                         levelFiles |-> LevelFilesBytes(sorted),
                         incomplete |-> ReplyIncomplete(childDirs, cached),
                         finalized |-> {}, summary |-> FALSE, cleared |-> FALSE,
                         stale |-> FALSE,
                         allCompleted |-> ReplyIncomplete(childDirs, cached) = {}]
            /\ IF eventsReady
               THEN /\ loads' = IF needsScan THEN [nowLoads EXCEPT ![t].pc = "ensure"]
                                 ELSE Drop(t)
                    /\ ensureCalls' = ensureCalls \cup
                           (IF needsScan
                            THEN {[token |-> t, attached |-> \A ch \in Channels : Attached(ch),
                                   cur |-> TRUE,
                                   replyComplete |-> ReplyIncomplete(childDirs, cached) = {}]}
                            ELSE {})
               ELSE /\ loads' = nowLoads
                    /\ UNCHANGED ensureCalls

Prefill(t, sorted, cached, failed) ==
    PrefillWith(t, sorted, ChildDirs(sorted), cached,
                PrefillKnown(ChildDirs(sorted), cached),
                PrefillScanning(ChildDirs(sorted), cached), failed)

\* get_cached_sizes resolves with one optional record per child directory
CacheReply(t) ==
    /\ loads[t].pc = "cache"
    /\ \E sorted \in { Sorted(loads[t].path, loads[t].view) } :
         \E cached \in [DOMAIN ChildDirs(sorted) -> CacheOpts] :
           Prefill(t, sorted, cached, FALSE)

\* a fallback that takes every child for completed with 0 bytes
CacheFallbackCompleted(childDirs) == [i \in DOMAIN childDirs |-> <<0, 0, TRUE>>]

\* line 159
CacheFallback(childDirs) == [i \in DOMAIN childDirs |-> Null]

\* get_cached_sizes rejects (lines 158-160): every child counts as unknown
CacheFail(t) ==
    /\ loads[t].pc = "cache"
    /\ \E sorted \in { Sorted(loads[t].path, loads[t].view) } :
           Prefill(t, sorted, CacheFallback(ChildDirs(sorted)), TRUE)

\* ensure_path_sizer resolves
EnsureOk(t) ==
    /\ loads[t].pc = "ensure"
    /\ loads' = Drop(t)
    /\ UNCHANGED << engineVars, loadSeq, currentScanKey, currentPath, subVars,
                    ensureCalls, epoch >>

\* a failure handler that leaves the pending deltas as they are
PendingKeptAtFailure(m) == m

\* line 255
PendingAfterFailure(m) == EmptyMap

\* ensure_path_sizer rejects: the catch block of lines 252-257
EnsureFail(t) ==
    /\ loads[t].pc = "ensure"
    /\ loads' = Drop(t)
    /\ scanningDirs' = {}
    /\ pendingProgress' = PendingAfterFailure(pendingProgress)
    /\ flushTimer' = NoTimer
    /\ timers' = Cancelled(timers, flushTimer)
    /\ epoch' = [epoch EXCEPT !.cleared = TRUE]
    /\ UNCHANGED << knownDirBytes, nameToRowIndex, runningTotal, totalBytes, itemsCount,
                    lastFlushedBytes, currentFlushScanKey, rows, loadSeq, currentScanKey,
                    currentPath, subVars, ensureCalls >>

\* ------------------------------------------------------- specification
\* what the Coordinator may put on the three channels
Events(names, bytes) ==
    [ progress |-> [scan_key : ScanKeys, name : names, bytes : bytes],
      child    |-> [scan_key : ScanKeys, name : names, bytes : bytes],
      summary  |-> [scan_key : ScanKeys, bytes : bytes] ]

\* no loadPath call is still before its paint
Painted == \A t \in DOMAIN loads : loads[t].pc \notin {"list", "cache"}

LoadSteps ==
    \/ \E t \in DOMAIN loads : ListReply(t)
    \/ \E t \in DOMAIN loads : ListFail(t)
    \/ \E t \in DOMAIN loads : CacheReply(t)
    \/ \E t \in DOMAIN loads : CacheFail(t)
    \/ \E t \in DOMAIN loads : EnsureOk(t)
    \/ \E t \in DOMAIN loads : EnsureFail(t)

\* Spec: the pane stays mounted and the user navigates once the previous
\* navigation has painted; the Coordinator reports small and burst-sized byte
\* counts under any identity
AllEvents == Events(EventNames, (1 .. MaxBytes) \cup {BurstThreshold})

Next ==
    \/ \E p \in Paths : Painted /\ Navigate(p) /\ UNCHANGED order
    \/ LoadSteps /\ UNCHANGED order
    \/ \E r \in DOMAIN effects : RegisterStep(r) /\ UNCHANGED order
    \/ \E p \in AllEvents.progress : OnProgress(p) /\ UNCHANGED order
    \/ \E p \in AllEvents.child : OnChild(p) /\ UNCHANGED order
    \/ \E p \in AllEvents.summary : OnSummary(p) /\ UNCHANGED order
    \/ TimerFire /\ UNCHANGED order

Spec == Init /\ [][Next]_vars

\* SpecNav: navigations overlap freely; the Coordinator reports small byte
\* counts under the active identity
NavEvents == Events(EventNames, 1 .. MaxBytes)

\* history: the navigations whose cache reply came after a later navigation
NoteRefused(t) == IF t # loadSeq THEN [order EXCEPT !.delivered = @ \cup {t}] ELSE order

NextNav ==
    \/ \E p \in Paths : Navigate(p) /\ UNCHANGED order
    \/ \E t \in DOMAIN loads : ListReply(t) /\ UNCHANGED order
    \/ \E t \in DOMAIN loads : ListFail(t) /\ UNCHANGED order
    \/ \E t \in DOMAIN loads : CacheReply(t) /\ order' = NoteRefused(t)
    \/ \E t \in DOMAIN loads : CacheFail(t) /\ order' = NoteRefused(t)
    \/ \E t \in DOMAIN loads : EnsureOk(t) /\ UNCHANGED order
    \/ \E t \in DOMAIN loads : EnsureFail(t) /\ UNCHANGED order
    \/ \E r \in DOMAIN effects : RegisterStep(r) /\ UNCHANGED order
    \/ \E p \in NavEvents.progress : ~Stale(p) /\ OnProgress(p) /\ UNCHANGED order
    \/ \E p \in NavEvents.child : ~Stale(p) /\ OnChild(p) /\ UNCHANGED order
    \/ \E p \in NavEvents.summary : ~Stale(p) /\ OnSummary(p) /\ UNCHANGED order
    \/ TimerFire /\ UNCHANGED order

SpecNav == Init /\ [][NextNav]_vars

\* SpecSub: React may tear the subscription effect down and run it again at
\* any time; the user navigates once the previous navigation has painted, the
\* size cache is unavailable and the Coordinator reports finished children
\* under the active identity
NextSub ==
    \/ \E p \in Paths : Painted /\ Navigate(p) /\ UNCHANGED order
    \/ \E t \in DOMAIN loads : ListReply(t) /\ UNCHANGED order
    \/ \E t \in DOMAIN loads : ListFail(t) /\ UNCHANGED order
    \/ \E t \in DOMAIN loads : CacheFail(t) /\ UNCHANGED order
    \/ \E t \in DOMAIN loads : EnsureOk(t) /\ UNCHANGED order
    \/ \E t \in DOMAIN loads : EnsureFail(t) /\ UNCHANGED order
    \/ \E r \in DOMAIN effects : RegisterStep(r) /\ UNCHANGED order
    \/ EffectCleanup /\ UNCHANGED order
    \/ EffectSetup /\ UNCHANGED order
    \/ \E p \in NavEvents.child : ~Stale(p) /\ OnChild(p) /\ UNCHANGED order

SpecSub == Init /\ [][NextSub]_vars

\* SpecOrder: the same directory is painted twice from the same cache reply,
\* with the listeners attached from the start; in each round the Coordinator
\* delivers one fixed pool of events of the active identity (a Progress and a
\* ChildComplete for one child, and a Summary) in any order and any number of
\* times.  The outcome of the first round is recorded once every event of the
\* pool has been delivered and no flush is pending, and the second round
\* starts from there.
OrderDir == "/h"

OrderPools ==
    { { [ch |-> ChProgress, scan_key |-> scanKeyOf(OrderDir, DefaultView), name |-> "Y", bytes |-> b1],
        [ch |-> ChChild, scan_key |-> scanKeyOf(OrderDir, DefaultView), name |-> "Y", bytes |-> b2],
        [ch |-> ChSummary, scan_key |-> scanKeyOf(OrderDir, DefaultView), name |-> "", bytes |-> b3] } :
      b1 \in 1 .. MaxBytes, b2 \in 1 .. MaxBytes, b3 \in 1 .. MaxBytes + 2 }

InitOrder ==
    /\ loadSeq = 0
    /\ currentScanKey = ""
    /\ currentPath = ""
    /\ knownDirBytes = EmptyMap
    /\ nameToRowIndex = EmptyMap
    /\ runningTotal = 0
    /\ totalBytes = 0
    /\ itemsCount = 0
    /\ scanningDirs = {}
    /\ pendingProgress = EmptyMap
    /\ flushTimer = NoTimer
    /\ timers = <<>>
    /\ lastFlushedBytes = 0
    /\ currentFlushScanKey = ""
    /\ rows = <<>>
    /\ loads = EmptyMap
    /\ effects = << [reg |-> 3, cleaned |-> FALSE] >>
    /\ leaked = {}
    /\ eventsReady = TRUE
    /\ ensureCalls = {}
    /\ epoch = NoEpoch
    /\ \E pool \in OrderPools :
       \E cached \in [DOMAIN ChildDirs(Sorted(OrderDir, DefaultView)) -> CacheOpts] :
           order = [round |-> 1, pool |-> pool, cache |-> cached, delivered |-> {},
                    first |-> <<>>, again |-> FALSE]

\* every event of the pool has been handled in this round and nothing is pending
RoundOver ==
    /\ epoch.n = order.round
    /\ order.delivered = order.pool
    /\ flushTimer = NoTimer
    /\ loads = EmptyMap

NextOrder ==
    \/ /\ epoch.n = order.round - 1
       /\ loads = EmptyMap
       /\ Navigate(OrderDir)
       /\ UNCHANGED order
    \/ \E t \in DOMAIN loads : ListReply(t) /\ UNCHANGED order
    \/ \E t \in DOMAIN loads :
           /\ loads[t].pc = "cache"
           /\ Prefill(t, Sorted(loads[t].path, loads[t].view), order.cache, FALSE)
           /\ UNCHANGED order
    \/ \E t \in DOMAIN loads : EnsureOk(t) /\ UNCHANGED order
    \/ \E e \in order.pool :
           /\ epoch.n = order.round
           /\ order' = [order EXCEPT !.delivered = @ \cup {e},
                                     !.again = @ \/ (e.ch = ChChild /\ e \in order.delivered)]
           /\ CASE e.ch = ChProgress ->
                      OnProgress([scan_key |-> e.scan_key, name |-> e.name, bytes |-> e.bytes])
                [] e.ch = ChChild ->
                      OnChild([scan_key |-> e.scan_key, name |-> e.name, bytes |-> e.bytes])
                [] e.ch = ChSummary ->
                      OnSummary([scan_key |-> e.scan_key, bytes |-> e.bytes])
    \/ TimerFire /\ UNCHANGED order
    \/ /\ order.round = 1
       /\ RoundOver
       /\ order' = [order EXCEPT !.round = 2, !.delivered = {}, !.again = FALSE,
                                 !.first = << runningTotal, knownDirBytes >>]
       /\ UNCHANGED << engineVars, navVars, subVars, ensureCalls, epoch >>

SpecOrder == InitOrder /\ [][NextOrder]_vars

\* SpecScenario: the level "/s" (files of 100 and 200 bytes, directories X
\* and Y) is painted with the listeners attached from the start; the cache
\* may know X and Y in any way and the Coordinator may report 300, 450 or 1250
\* bytes on any channel under the active or another identity.  order.round
\* follows the script prefill(X completed 500, Y absent), Progress(Y,300),
\* flush, ChildComplete(Y,450), Summary(1250): it counts the scripted steps
\* taken so far and becomes OffScript as soon as anything else changes the
\* epoch.
ScenarioDir == "/s"

ScenarioKey == scanKeyOf(ScenarioDir, DefaultView)

ScenarioCache == << <<500, 0, TRUE>>, Null >>

ScenarioBytes == {300, 450, 1250}

ScenarioEvents ==
    [ progress |-> [scan_key : {ScenarioKey, scanKeyOf(RootPath, DefaultView)},
                    name : {"X", "Y"}, bytes : ScenarioBytes],
      child    |-> [scan_key : {ScenarioKey, scanKeyOf(RootPath, DefaultView)},
                    name : {"X", "Y"}, bytes : ScenarioBytes],
      summary  |-> [scan_key : {ScenarioKey, scanKeyOf(RootPath, DefaultView)},
                    bytes : ScenarioBytes] ]

OffScript == 9

\* the position in the script after a step: n is the position the step leads
\* to when it is the scripted one (it is taken at position n - 1)
ScriptAfter(scripted, harmless, n) ==
    IF scripted /\ order.round = n - 1 THEN n
    ELSE IF harmless THEN order.round
    ELSE OffScript

Script(scripted, harmless, n) ==
    order' = [order EXCEPT !.round = ScriptAfter(scripted, harmless, n), !.delivered = {}]

\* history: the names whose known bytes the timer flush raises
FlushBatch ==
    IF timers = <<>> \/ timers[1] # currentScanKey THEN {}
    ELSE { n \in DOMAIN pendingProgress :
             n \in scanningDirs /\ pendingProgress[n] > Known(n) }

InitScenario ==
    /\ loadSeq = 0
    /\ currentScanKey = ""
    /\ currentPath = ""
    /\ knownDirBytes = EmptyMap
    /\ nameToRowIndex = EmptyMap
    /\ runningTotal = 0
    /\ totalBytes = 0
    /\ itemsCount = 0
    /\ scanningDirs = {}
    /\ pendingProgress = EmptyMap
    /\ flushTimer = NoTimer
    /\ timers = <<>>
    /\ lastFlushedBytes = 0
    /\ currentFlushScanKey = ""
    /\ rows = <<>>
    /\ loads = EmptyMap
    /\ effects = << [reg |-> 3, cleaned |-> FALSE] >>
    /\ leaked = {}
    /\ eventsReady = TRUE
    /\ ensureCalls = {}
    /\ epoch = NoEpoch
    /\ order = NoOrder

NextScenario ==
    \/ /\ loads = EmptyMap
       /\ Navigate(ScenarioDir)
       /\ order' = [order EXCEPT !.round = OffScript, !.delivered = {}]
    \/ \E t \in DOMAIN loads : ListReply(t) /\ UNCHANGED order
    \/ \E t \in DOMAIN loads :
           /\ loads[t].pc = "cache"
           /\ \E sorted \in { Sorted(loads[t].path, loads[t].view) } :
                \E cached \in [DOMAIN ChildDirs(sorted) ->
                                   { Null, <<500, 0, TRUE>>, <<500, 0, FALSE>> }] :
                    /\ Prefill(t, sorted, cached, FALSE)
                    /\ order' = [order EXCEPT !.round =
                                    IF cached = ScenarioCache THEN 1 ELSE OffScript,
                                               !.delivered = {}]
    \/ \E t \in DOMAIN loads : EnsureOk(t) /\ UNCHANGED order
    \/ \E p \in ScenarioEvents.progress :
           /\ OnProgress(p)
           /\ Script(p = [scan_key |-> ScenarioKey, name |-> "Y", bytes |-> 300], Stale(p), 2)
    \/ /\ TimerFire
       /\ order' = [order EXCEPT !.round = ScriptAfter(TRUE, FALSE, 3),
                                 !.delivered = FlushBatch]
    \/ \E p \in ScenarioEvents.child :
           /\ OnChild(p)
           /\ Script(p = [scan_key |-> ScenarioKey, name |-> "Y", bytes |-> 450], Stale(p), 4)
    \/ \E p \in ScenarioEvents.summary :
           /\ OnSummary(p)
           /\ Script(p = [scan_key |-> ScenarioKey, bytes |-> 1250], Stale(p), 5)

SpecScenario == InitScenario /\ [][NextScenario]_vars

\* SpecLive: the pane stays mounted, the user navigates once the previous
\* navigation has painted and the Coordinator reports small byte counts under
\* the active identity; an asynchronous registration that can go on does go
\* on, and the Coordinator does deliver the Summary of the active identity
\* once the latest navigation has painted
DeliverSummary ==
    \E p \in NavEvents.summary :
        /\ ~Stale(p)
        /\ epoch.token = loadSeq
        /\ OnSummary(p)
        /\ UNCHANGED order

Registration == \E r \in DOMAIN effects : RegisterStep(r) /\ UNCHANGED order

NextLive ==
    \/ \E p \in Paths : Painted /\ Navigate(p) /\ UNCHANGED order
    \/ LoadSteps /\ UNCHANGED order
    \/ Registration
    \/ \E p \in NavEvents.progress : ~Stale(p) /\ OnProgress(p) /\ UNCHANGED order
    \/ \E p \in NavEvents.child : ~Stale(p) /\ OnChild(p) /\ UNCHANGED order
    \/ \E p \in NavEvents.summary : ~Stale(p) /\ OnSummary(p) /\ UNCHANGED order
    \/ TimerFire /\ UNCHANGED order

SpecLive ==
    /\ Init
    /\ [][NextLive]_vars
    /\ WF_vars(Registration)
    /\ WF_vars(DeliverSummary)

\* SpecKey: the pane, with its listeners attached, is navigated to a path
\* under any view (hidden flag, sort key, sort direction, directories first);
\* the size cache is unavailable.  order keeps the inputs and the identity of
\* the last two navigations.

Views == [showHidden : BOOLEAN, sortKey : {"name", "size", "date", "type"},
          sortDir : {"asc", "desc"}, dirsFirst : BOOLEAN]

InitKey ==
    /\ loadSeq = 0
    /\ currentScanKey = ""
    /\ currentPath = ""
    /\ knownDirBytes = EmptyMap
    /\ nameToRowIndex = EmptyMap
    /\ runningTotal = 0
    /\ totalBytes = 0
    /\ itemsCount = 0
    /\ scanningDirs = {}
    /\ pendingProgress = EmptyMap
    /\ flushTimer = NoTimer
    /\ timers = <<>>
    /\ lastFlushedBytes = 0
    /\ currentFlushScanKey = ""
    /\ rows = <<>>
    /\ loads = EmptyMap
    /\ effects = << [reg |-> 3, cleaned |-> FALSE] >>
    /\ leaked = {}
    /\ eventsReady = TRUE
    /\ ensureCalls = {}
    /\ epoch = NoEpoch
    /\ order = <<>>

NextKey ==
    \/ \E p \in {"/h", "/h|true"} : \E v \in Views :
           /\ loads = EmptyMap
           /\ NavigateView(p, v)
           /\ order' = (IF Len(order) < 2 THEN order ELSE Tail(order)) \o
                       << [path |-> p, view |-> v, token |-> loadSeq',
                           key |-> currentScanKey'] >>
    \/ \E t \in DOMAIN loads : ListReply(t) /\ UNCHANGED order
    \/ \E t \in DOMAIN loads : CacheFail(t) /\ UNCHANGED order
    \/ \E t \in DOMAIN loads : EnsureOk(t) /\ UNCHANGED order

SpecKey == InitKey /\ [][NextKey]_vars

\* SpecProgress: the pane, with its listeners attached, is navigated once the
\* previous loadPath has returned; the Coordinator reports 1 byte, the burst
\* threshold or one byte more in Progress events of any identity, and 1 byte
\* in ChildComplete and Summary events of the active identity; the cache
\* knows each child as completed with 1 byte or not at all.  order keeps, for
\* the running epoch, the value handed to the last flush that ran (0 when
\* none has), why the last ignored Progress of the active identity was
\* ignored, and the last Progress event handled.

ProgressEvents ==
    [ progress |-> [scan_key : ScanKeys, name : EventNames,
                    bytes : {1, BurstThreshold, BurstThreshold + 1}],
      child    |-> [scan_key : ScanKeys, name : EventNames, bytes : {1}],
      summary  |-> [scan_key : ScanKeys, bytes : {1}] ]

NoProgress == [lastFlush |-> 0, ignored |-> "", last |-> <<>>, seen |-> 0]

InitProgress ==
    /\ loadSeq = 0
    /\ currentScanKey = ""
    /\ currentPath = ""
    /\ knownDirBytes = EmptyMap
    /\ nameToRowIndex = EmptyMap
    /\ runningTotal = 0
    /\ totalBytes = 0
    /\ itemsCount = 0
    /\ scanningDirs = {}
    /\ pendingProgress = EmptyMap
    /\ flushTimer = NoTimer
    /\ timers = <<>>
    /\ lastFlushedBytes = 0
    /\ currentFlushScanKey = ""
    /\ rows = <<>>
    /\ loads = EmptyMap
    /\ effects = << [reg |-> 3, cleaned |-> FALSE] >>
    /\ leaked = {}
    /\ eventsReady = TRUE
    /\ ensureCalls = {}
    /\ epoch = NoEpoch
    /\ order = NoProgress

\* history: why a Progress of the active identity for name is not accepted
IgnoredBecause(name) ==
    IF name \notin DOMAIN knownDirBytes THEN "unlisted"
    ELSE IF name \in epoch.finalized THEN "finalized"
    ELSE IF epoch.summary THEN "summary"
    ELSE IF name \notin epoch.incomplete THEN "cached"
    ELSE "cleared"

\* history: the largest value a flush of the pending map pend hands over
FlushedValue(pend) ==
    CHOOSE b \in { pend[n] : n \in DOMAIN pend } :
        \A n \in DOMAIN pend : pend[n] <= b

\* history: the largest byte count among the Progress events accepted while
\* the flush timer now pending has been pending (its first one included)
SeenAfter(p) ==
    IF timers' = <<>> THEN 0
    ELSE IF timers' = timers THEN Max(order.seen, p.bytes)
    ELSE p.bytes

NextProgress ==
    \/ \E p \in Paths :
           /\ loads = EmptyMap
           /\ Navigate(p)
           /\ UNCHANGED order
    \/ \E t \in DOMAIN loads : ListReply(t) /\ UNCHANGED order
    \/ \E t \in DOMAIN loads :
           /\ loads[t].pc = "cache"
           /\ \E sorted \in { Sorted(loads[t].path, loads[t].view) } :
                \E cached \in [DOMAIN ChildDirs(sorted) -> { Null, <<1, 0, TRUE>> }] :
                    Prefill(t, sorted, cached, FALSE)
           /\ order' = NoProgress
    \/ \E t \in DOMAIN loads : EnsureOk(t) /\ UNCHANGED order
    \/ \E p \in ProgressEvents.progress :
           /\ OnProgress(p)
           /\ order' =
                IF Stale(p) THEN [order EXCEPT !.last = <<>>]
                ELSE IF p.name \notin scanningDirs
                THEN [order EXCEPT !.ignored = IgnoredBecause(p.name), !.last = <<>>]
                ELSE [order EXCEPT
                         !.last = [name |-> p.name, bytes |-> p.bytes],
                         !.lastFlush = IF flushTimer' = NoTimer
                                       THEN Max(MapGet(pendingProgress, p.name, 0), p.bytes)
                                       ELSE @,
                         !.seen = SeenAfter(p)]
    \/ /\ TimerFire
       /\ order' = [order EXCEPT
                       !.last = <<>>,
                       !.seen = 0,
                       !.lastFlush = IF flushTimer = currentScanKey /\ pendingProgress # EmptyMap
                                     THEN FlushedValue(pendingProgress)
                                     ELSE @]
    \/ \E p \in ProgressEvents.child :
           ~Stale(p) /\ OnChild(p) /\ order' = [order EXCEPT !.last = <<>>]
    \/ \E p \in ProgressEvents.summary :
           ~Stale(p) /\ OnSummary(p) /\ order' = [order EXCEPT !.last = <<>>, !.seen = 0]
    \* the pane is unmounted: the cleanup of the subscription effect runs
    \/ EffectCleanup /\ order' = [order EXCEPT !.last = <<>>, !.seen = 0]

SpecProgress == InitProgress /\ [][NextProgress]_vars

\* SpecSort: the comparator is applied, under any view, to a listing that the
\* Directory Lister returns in any order; two of its files have names that
\* differ by case only.  order keeps the view, the listing and the sorted
\* listing.
SortPool ==
    { FileEntry("Y", TRUE, 0, <<"2024-01-03", "10:00">>),
      FileEntry("X", TRUE, 0, <<"2024-01-02", "10:00">>),
      FileEntry("a.txt", FALSE, 1, <<"2024-01-01", "10:00">>),
      FileEntry("A.TXT", FALSE, 3, <<"2024-01-02", "10:00">>),
      FileEntry("b.md", FALSE, 2, <<>>) }

SortInputs ==
    { s \in [1 .. Cardinality(SortPool) -> SortPool] :
        \A i, j \in DOMAIN s : i # j => s[i] # s[j] }

InitSort ==
    /\ loadSeq = 0
    /\ currentScanKey = ""
    /\ currentPath = ""
    /\ knownDirBytes = EmptyMap
    /\ nameToRowIndex = EmptyMap
    /\ runningTotal = 0
    /\ totalBytes = 0
    /\ itemsCount = 0
    /\ scanningDirs = {}
    /\ pendingProgress = EmptyMap
    /\ flushTimer = NoTimer
    /\ timers = <<>>
    /\ lastFlushedBytes = 0
    /\ currentFlushScanKey = ""
    /\ rows = <<>>
    /\ loads = EmptyMap
    /\ effects = << [reg |-> 3, cleaned |-> FALSE] >>
    /\ leaked = {}
    /\ eventsReady = TRUE
    /\ ensureCalls = {}
    /\ epoch = NoEpoch
    /\ \E v \in Views : \E s \in SortInputs :
           order = [view |-> v, input |-> s, sorted |-> <<>>]

\* loadPath line 142: "filtered.sort((a, b) => compare(a, b, v))"
SortStep ==
    /\ order.sorted = <<>>
    /\ order' = [order EXCEPT !.sorted = SortEntries(FilterHidden(order.input, order.view),
                                                     order.view)]
    /\ UNCHANGED << engineVars, navVars, subVars, ensureCalls, epoch >>

NextSort == SortStep

SpecSort == InitSort /\ [][NextSort]_vars

\* SpecPath: the pane starts at its root path and the user goes up or opens a
\* directory row any number of times; a loadPath call either paints its
\* target, which becomes the current path, or ends before the paint.  Paths
\* are sequences of characters.  order keeps rootPath, the currentPath state,
\* the target handed to the last loadPath call, what called it and the
\* currentPath it was called with.
MaxDepth == 2

\* fileDataHelpers.ts parentPath
parentPath(p) ==
    IF p = <<>> \/ p = <<"/">> THEN <<"/">>
    ELSE LET k == Max(0, CHOOSE j \in 0 .. Len(p) :
                         /\ j > 0 => p[j] # "/"
                         /\ \A m \in j + 1 .. Len(p) : p[m] = "/")
             norm == SubSeq(p, 1, k)
             slashes == { j \in DOMAIN norm : norm[j] = "/" }
             i == IF slashes = {} THEN -1
                  ELSE (CHOOSE j \in slashes : \A m \in slashes : m <= j) - 1
         IN  IF i <= 0 THEN <<"/">> ELSE SubSeq(norm, 1, i)

\* String.prototype.startsWith
startsWith(str, pre) ==
    Len(pre) <= Len(str) /\ SubSeq(str, 1, Len(pre)) = pre

\* a go-up that takes the parent wherever it is
resolveGoUpTargetUnclamped(cur, root) == parentPath(cur)

\* fsNav.ts resolveGoUpTarget
resolveGoUpTarget(cur, root) ==
    LET parent == parentPath(cur)
    IN  IF startsWith(parent, root) THEN parent ELSE root

\* homeDir() with backslashes replaced and one trailing slash removed
PathRoots == { <<"/", "h">>, <<"/", "h", "/", "u">>, <<"C", ":", "/", "u">> }

InitPath ==
    /\ loadSeq = 0
    /\ currentScanKey = ""
    /\ currentPath = ""
    /\ knownDirBytes = EmptyMap
    /\ nameToRowIndex = EmptyMap
    /\ runningTotal = 0
    /\ totalBytes = 0
    /\ itemsCount = 0
    /\ scanningDirs = {}
    /\ pendingProgress = EmptyMap
    /\ flushTimer = NoTimer
    /\ timers = <<>>
    /\ lastFlushedBytes = 0
    /\ currentFlushScanKey = ""
    /\ rows = <<>>
    /\ loads = EmptyMap
    /\ effects = << [reg |-> 3, cleaned |-> FALSE] >>
    /\ leaked = {}
    /\ eventsReady = TRUE
    /\ ensureCalls = {}
    /\ epoch = NoEpoch
    /\ \E home \in PathRoots :
           order = [rootPath |-> home, currentPath |-> home, target |-> home,
                    via |-> "init", from |-> home]

NextPath ==
    \* goUp, or openEntry on the ".." row: goUpNav
    \/ \E painted \in BOOLEAN :
           /\ order' = [order EXCEPT
                           !.target = resolveGoUpTarget(order.currentPath, order.rootPath),
                           !.currentPath = IF painted
                                           THEN resolveGoUpTarget(order.currentPath, order.rootPath)
                                           ELSE @,
                           !.via = "goUp",
                           !.from = order.currentPath]
           /\ UNCHANGED << engineVars, navVars, subVars, ensureCalls, epoch >>
    \* openEntry on a directory row: loadPath(await join(currentPath, realName))
    \/ \E painted \in BOOLEAN : \E realName \in { <<"u">>, <<"h">>, <<"h", "u">> } :
           LET full == IF order.currentPath # <<>> /\ order.currentPath[Len(order.currentPath)] = "/"
                       THEN order.currentPath \o realName
                       ELSE order.currentPath \o <<"/">> \o realName
           IN  /\ Len(full) <= Len(order.rootPath) + 3 * MaxDepth
               /\ order' = [order EXCEPT
                               !.target = full,
                               !.currentPath = IF painted THEN full ELSE @,
                               !.via = "openEntry",
                               !.from = order.currentPath]
               /\ UNCHANGED << engineVars, navVars, subVars, ensureCalls, epoch >>

SpecPath == InitPath /\ [][NextPath]_vars

\* SpecSelect: the multi-selection of one pane.  The pane shows the ".." row
\* and up to MaxRows - 1 entries; the user clicks rows, presses selection
\* keys, deletes the selection, and navigates or reloads, which replaces the
\* rows by those of a level with any number of entries.  order keeps
\* rows.length, the cursor, the selected set and the anchor.
MaxRows == 4

InitSelect ==
    /\ loadSeq = 0
    /\ currentScanKey = ""
    /\ currentPath = ""
    /\ knownDirBytes = EmptyMap
    /\ nameToRowIndex = EmptyMap
    /\ runningTotal = 0
    /\ totalBytes = 0
    /\ itemsCount = 0
    /\ scanningDirs = {}
    /\ pendingProgress = EmptyMap
    /\ flushTimer = NoTimer
    /\ timers = <<>>
    /\ lastFlushedBytes = 0
    /\ currentFlushScanKey = ""
    /\ rows = <<>>
    /\ loads = EmptyMap
    /\ effects = << [reg |-> 3, cleaned |-> FALSE] >>
    /\ leaked = {}
    /\ eventsReady = TRUE
    /\ ensureCalls = {}
    /\ epoch = NoEpoch
    /\ \E n \in 1 .. MaxRows :
           order = [rowCount |-> n, cursor |-> 0, selected |-> {}, anchor |-> 0]

\* useMultiSelect lines 26-29 and 68-71: the range between the anchor and i,
\* without the ".." row
SelectRange(i) ==
    { k \in Min(order.anchor, i) .. Max(order.anchor, i) : k # 0 }

\* useMultiSelect lines 32-36, 79-80 and 86-87: toggle row i unless it is ".."
SelectToggle(i) ==
    IF i = 0 THEN order.selected
    ELSE IF i \in order.selected THEN order.selected \ {i}
    ELSE order.selected \cup {i}

NextSelect ==
    \* click(i, e) on a displayed row
    \/ \E i \in 0 .. order.rowCount - 1 : \E e \in {"shift", "ctrl", "plain"} :
           /\ order' = [order EXCEPT
                           !.selected = CASE e = "shift" -> SelectRange(i)
                                          [] e = "ctrl" -> SelectToggle(i)
                                          [] OTHER -> IF i # 0 THEN {i} ELSE {},
                           !.anchor = IF e = "shift" THEN @ ELSE i,
                           !.cursor = i]
           /\ UNCHANGED << engineVars, navVars, subVars, ensureCalls, epoch >>
    \* key(e): the cursor keys
    \/ \E k \in {"ArrowDown", "ArrowUp", "Home", "End", "PageDown", "PageUp"} :
           /\ order.rowCount # 0
           /\ order' = [order EXCEPT !.cursor =
                           CASE k = "ArrowDown" -> Min(@ + 1, order.rowCount - 1)
                             [] k = "ArrowUp" -> Max(@ - 1, 0)
                             [] k = "Home" -> 0
                             [] k = "End" -> order.rowCount - 1
                             [] k = "PageDown" -> Min(@ + 15, order.rowCount - 1)
                             [] k = "PageUp" -> Max(@ - 15, 0)]
           /\ UNCHANGED << engineVars, navVars, subVars, ensureCalls, epoch >>
    \* key(e): shift with ArrowDown or ArrowUp extends the selection
    \/ \E k \in {"ArrowDown", "ArrowUp"} :
           LET nextIndex == IF k = "ArrowDown" THEN Min(order.cursor + 1, order.rowCount - 1)
                            ELSE Max(order.cursor - 1, 0)
           IN  /\ order.rowCount # 0
               /\ order' = [order EXCEPT !.selected = SelectRange(nextIndex),
                                         !.cursor = nextIndex]
               /\ UNCHANGED << engineVars, navVars, subVars, ensureCalls, epoch >>
    \* key(e): Insert toggles and moves down, Space toggles
    \/ \E k \in {"Insert", " "} :
           /\ order.rowCount # 0
           /\ order' = [order EXCEPT
                           !.selected = SelectToggle(order.cursor),
                           !.cursor = IF k = "Insert" THEN Min(@ + 1, order.rowCount - 1) ELSE @]
           /\ UNCHANGED << engineVars, navVars, subVars, ensureCalls, epoch >>
    \* a navigation or a reload paints other rows; the effect of lines 14-16
    \* pulls the cursor back into them
    \/ \E n \in 1 .. MaxRows :
           /\ n # order.rowCount
           /\ order' = [order EXCEPT !.rowCount = n,
                                     !.cursor = IF @ >= n THEN n - 1 ELSE @]
           /\ UNCHANGED << engineVars, navVars, subVars, ensureCalls, epoch >>
    \* removeSelected: the entries are deleted, the level is reloaded and the
    \* selection is cleared
    \/ \E n \in 1 .. order.rowCount - 1 :
           /\ order.selected # {} \/ order.cursor # 0
           /\ order' = [order EXCEPT !.rowCount = n,
                                     !.cursor = IF @ >= n THEN n - 1 ELSE @,
                                     !.selected = {}]
           /\ UNCHANGED << engineVars, navVars, subVars, ensureCalls, epoch >>

SpecSelect == InitSelect /\ [][NextSelect]_vars

\* ================================================================ claims
MergeVars == << runningTotal, knownDirBytes, scanningDirs, pendingProgress, flushTimer, rows >>

KnownAfter(n) == MapGet(knownDirBytes', n, 0)

\* C1: handling a Progress, ChildComplete or Summary event whose scan identity
\* differs from the active one changes nothing: runningTotal, knownBytes,
\* scanningSet, pendingDeltas, the flush timer and every row are as before.
C1_StaleEventsChangeNothing ==
    [][ ( \/ \E p \in AllEvents.progress : Stale(p) /\ OnProgress(p)
          \/ \E p \in AllEvents.child : Stale(p) /\ OnChild(p)
          \/ \E p \in AllEvents.summary : Stale(p) /\ OnSummary(p) )
        => UNCHANGED MergeVars ]_vars

\* a stale event has been handled in an epoch that has a child scanning, a
\* pending delta and a pending flush timer
C1_Witness ==
    /\ epoch.stale
    /\ scanningDirs # {}
    /\ DOMAIN pendingProgress # {}
    /\ flushTimer # NoTimer

\* C2: within one epoch (from one prefill to the next) runningTotal never
\* decreases, whatever events, flushes and StartOrJoin failures interleave.
C2_TotalNeverDecreases ==
    [][ epoch'.n = epoch.n => runningTotal' >= runningTotal ]_vars

\* one epoch has seen a finished child, a Summary and a StartOrJoin failure
C2_Witness ==
    /\ epoch.n > 0
    /\ epoch.summary
    /\ epoch.finalized # {}
    /\ epoch.cleared
    /\ runningTotal > epoch.levelFiles

\* C3: within one epoch knownBytes[name] never decreases for any name.
C3_KnownNeverDecreases ==
    [][ epoch'.n = epoch.n =>
          \A n \in (DOMAIN knownDirBytes) \cup (DOMAIN knownDirBytes') :
              KnownAfter(n) >= Known(n) ]_vars

\* a burst-sized value has been accepted for a child that is still scanning
\* and a smaller Progress value is now pending for it
C3_Witness ==
    \E n \in scanningDirs :
        /\ Known(n) = BurstThreshold
        /\ n \in DOMAIN pendingProgress
        /\ pendingProgress[n] < Known(n)

C5_NoMarkerAfterSummary ==
    epoch.summary =>
        /\ scanningDirs = {}
        /\ \A i \in { j \in DOMAIN rows : rows[j].isDir /\ ~rows[j].specialUp } :
              ~HasMarker(rows[i])

\* C6: a navigation whose cache reply reports every child directory completed
\* (or whose level has no child directory) never calls ensure_path_sizer, and
\* its prefill leaves scanningSet empty.
C6_FastPathNeverStarts ==
    /\ \A c \in ensureCalls : ~c.replyComplete
    /\ (epoch.n > 0 /\ epoch.allCompleted) => scanningDirs = {}

\* a level with child directories was painted from a complete cache reply
\* after an earlier navigation did start a scan
C6_Witness ==
    /\ epoch.n > 1
    /\ epoch.allCompleted
    /\ DOMAIN knownDirBytes # {}
    /\ ensureCalls # {}
    /\ loads = EmptyMap

\* C7: every ensure_path_sizer call happens while the progress, child and
\* summary listeners are all attached.
C7_StartOnlyWhenSubscribed ==
    \A c \in ensureCalls : c.attached

\* C8: once a later navigation has started, no continuation of an earlier
\* loadPath call changes knownBytes, scanningSet, pendingDeltas, the flush
\* timer, runningTotal or rows.
C8_SupersededLoadChangesNothing ==
    [][ \A t \in DOMAIN loads :
            ( /\ t # loadSeq
              /\ (t \notin DOMAIN loads' \/ loads'[t] # loads[t]) )
            => UNCHANGED MergeVars ]_vars

\* C10 as stated: a name is in scanningSet iff its cache entry was missing or
\* incomplete at the start of the epoch and neither a ChildComplete for it nor
\* a Summary has been accepted since.
C10_ScanningIffUnfinished ==
    epoch.n > 0 =>
        scanningDirs = IF epoch.summary THEN {} ELSE epoch.incomplete \ epoch.finalized

\* C10 as amended: ... and neither a StartOrJoin failure handler nor an effect
\* cleanup has run since the prefill.
C10_ScanningIffUnfinishedOrCleared ==
    epoch.n > 0 =>
        scanningDirs = IF epoch.summary \/ epoch.cleared THEN {}
                       ELSE epoch.incomplete \ epoch.finalized

\* a StartOrJoin failure emptied the set while a child was unfinished
C10_Witness ==
    /\ epoch.n > 0
    /\ epoch.cleared
    /\ ~epoch.summary
    /\ epoch.incomplete \ epoch.finalized # {}

\* C9: the final runningTotal and knownBytes of an epoch do not depend on
\* the order in which the events of a fixed set are delivered nor on their
\* duplication: the second round ends as the first one did.
C9_OrderIndependent ==
    (order.round = 2 /\ RoundOver) => << runningTotal, knownDirBytes >> = order.first

\* the row of directory n, by its realName
RowOf(n) == rows[CHOOSE i \in DOMAIN rows : rows[i].realName = n]

\* C11: in the spec scenario (files 100 and 200, X cached completed with 500,
\* Y absent from the cache) the prefill leaves runningTotal 800 and
\* scanningSet {Y}; Progress(Y,300) and a flush give 1100 with Y provisional
\* 300; ChildComplete(Y,450) gives 1250 with Y exact 450; Summary(1250)
\* leaves 1250 and an empty scanningSet.
C11_Scenario ==
    /\ order.round \in {1, 2} =>
           /\ runningTotal = 800
           /\ totalBytes = 800
           /\ scanningDirs = {"Y"}
    /\ order.round = 3 =>
           /\ runningTotal = 1100
           /\ totalBytes = 1100
           /\ scanningDirs = {"Y"}
           /\ RowOf("Y").size = << "300 B", " ", ScanMarker >>
    /\ order.round = 4 =>
           /\ runningTotal = 1250
           /\ totalBytes = 1250
           /\ RowOf("Y").size = << "450 B" >>
    /\ order.round = 5 =>
           /\ runningTotal = 1250
           /\ totalBytes = 1250
           /\ scanningDirs = {}

\* the whole script has been played
C11_Witness ==
    /\ order.round = 5
    /\ epoch.summary
    /\ Known("Y") = 450
    /\ Known("X") = 500

\* the Settled state of an epoch
Settled ==
    /\ scanningDirs = {}
    /\ pendingProgress = EmptyMap
    /\ flushTimer = NoTimer

\* C12: once the latest navigation has painted a level that needs a scan, if
\* no further navigation is started and the Summary of the active identity is
\* eventually delivered, the epoch eventually is Settled (scanningSet and
\* pendingDeltas empty, no flush timer pending); and a Settled epoch stays
\* Settled until the next prefill.
C12_EventuallySettled ==
    /\ \A k \in 1 .. MaxNav + 1 :
           (loadSeq = k /\ epoch.token = k /\ scanningDirs # {})
               ~> (Settled \/ loadSeq # k)
    /\ [][ (Settled /\ epoch'.n = epoch.n) => Settled' ]_vars

\* an epoch of the latest navigation was settled by its Summary while a child
\* had not finished, and events kept arriving afterwards
C12_Witness ==
    /\ epoch.token = loadSeq
    /\ epoch.summary
    /\ epoch.incomplete \ epoch.finalized # {}
    /\ ~epoch.cleared
    /\ Settled

\* C13: when ensure_path_sizer of the latest navigation rejects, scanningSet
\* and pendingDeltas are cleared and the flush timer is cancelled while
\* runningTotal, knownBytes and every row keep their values; a ChildComplete
\* of the active identity handled after the failure is still merged as usual.
C13_StartFailureClearsOnly ==
    /\ [][ \A t \in DOMAIN loads :
               (t = loadSeq /\ EnsureFail(t)) =>
                   /\ scanningDirs' = {}
                   /\ pendingProgress' = EmptyMap
                   /\ flushTimer' = NoTimer
                   /\ UNCHANGED << runningTotal, totalBytes, knownDirBytes, rows >> ]_vars
    /\ [][ \A p \in AllEvents.child :
               (epoch.cleared /\ ~Stale(p) /\ OnChild(p)) =>
                   /\ KnownAfter(p.name) = Max(Known(p.name), p.bytes)
                   /\ runningTotal' = runningTotal + (Max(Known(p.name), p.bytes) - Known(p.name))
                   /\ p.name \in DOMAIN nameToRowIndex => ~HasMarker(RowOf(p.name)') ]_vars

\* the only navigation so far failed to start its scan after a provisional
\* value had been flushed: the value and the marker are still displayed, and
\* another child finished after the failure
C13_Witness ==
    /\ loadSeq = 1
    /\ epoch.token = 1
    /\ epoch.cleared
    /\ Settled
    /\ \E n \in epoch.incomplete \ epoch.finalized : Known(n) > 0 /\ HasMarker(RowOf(n))

\* the listing of path p as the level shows it: visible entries only
VisibleDirs(p) ==
    { ListDir(p)[i].name : i \in { j \in DOMAIN ListDir(p) :
          ListDir(p)[j].is_dir /\ ~StartsWithDot(ListDir(p)[j].name) } }

VisibleFileBytes(p) ==
    LET idx == { j \in DOMAIN ListDir(p) :
                   ~ListDir(p)[j].is_dir /\ ~StartsWithDot(ListDir(p)[j].name) }
    IN  SumOver([j \in idx |-> ListDir(p)[j].size], idx)

\* C14: when get_cached_sizes rejects for the latest navigation, every child
\* directory of the level is in scanningSet with knownBytes 0 and a row
\* carrying the scanning marker, runningTotal is the level's file bytes, and
\* ensure_path_sizer is called (at once, or when the events-ready barrier is
\* released) exactly when the level has a child directory.
C14_CacheFailureScansAll ==
    /\ [][ \A t \in DOMAIN loads :
               (t = loadSeq /\ CacheFail(t)) =>
                   /\ scanningDirs' = VisibleDirs(loads[t].path)
                   /\ DOMAIN knownDirBytes' = VisibleDirs(loads[t].path)
                   /\ \A n \in VisibleDirs(loads[t].path) :
                          /\ KnownAfter(n) = 0
                          /\ RowOf(n)'.size = << "0 B", "", ScanMarker >>
                   /\ runningTotal' = VisibleFileBytes(loads[t].path)
                   /\ totalBytes' = VisibleFileBytes(loads[t].path)
                   /\ IF VisibleDirs(loads[t].path) # {}
                      THEN \/ \E c \in ensureCalls' \ ensureCalls : c.token = t
                           \/ /\ ~eventsReady
                              /\ loads'[t].pc = "barrier"
                              /\ loads'[t].needsScan
                      ELSE /\ ensureCalls' = ensureCalls
                           /\ t \in DOMAIN loads' => ~loads'[t].needsScan ]_vars
    /\ [][ \A t \in DOMAIN loads :
               (loads[t].pc = "barrier" /\ loads[t].needsScan /\ eventsReady') =>
                   \E c \in ensureCalls' \ ensureCalls : c.token = t ]_vars

\* a level with child directories was painted after a failed cache lookup and
\* its scan was requested
C14_Witness ==
    /\ epoch.cacheFailed
    /\ epoch.token = loadSeq
    /\ scanningDirs = {"X", "Y"}
    /\ runningTotal = 1
    /\ \E c \in ensureCalls : c.token = loadSeq

C16_IdentityOfPathAndHidden ==
    /\ Len(order) > 0 => currentScanKey = order[Len(order)].key
    /\ Len(order) = 2 =>
           ( (/\ order[1].path = order[2].path
              /\ order[1].view.showHidden = order[2].view.showHidden)
             <=> order[1].key = order[2].key )

\* two navigations with the same path and hidden flag but another sort key,
\* direction, directories-first setting and token got the same identity
C16_Witness ==
    /\ Len(order) = 2
    /\ order[1].path = order[2].path
    /\ order[1].view.showHidden = order[2].view.showHidden
    /\ order[1].view.sortKey # order[2].view.sortKey
    /\ order[1].view.sortDir # order[2].view.sortDir
    /\ order[1].view.dirsFirst # order[2].view.dirsFirst
    /\ order[1].token # order[2].token
    /\ order[1].key = order[2].key
    /\ loads = EmptyMap

\* C17: a ChildComplete(name, bytes) of the active identity is merged in the
\* step that handles it, whatever the flush timer: afterwards pendingDeltas
\* has no entry for name, name is not in scanningSet, knownBytes[name] is
\* max(prior or 0, bytes), runningTotal has grown by that maximum minus the
\* prior value, and the row of name shows the exact size and no marker.
C17_ChildCompleteFinalizes ==
    [][ \A p \in AllEvents.child :
            (~Stale(p) /\ OnChild(p)) =>
                /\ p.name \notin DOMAIN pendingProgress'
                /\ p.name \notin scanningDirs'
                /\ KnownAfter(p.name) = Max(Known(p.name), p.bytes)
                /\ runningTotal' - runningTotal = Max(Known(p.name), p.bytes) - Known(p.name)
                /\ totalBytes' = runningTotal'
                /\ flushTimer' = flushTimer
                /\ p.name \in DOMAIN nameToRowIndex =>
                       /\ RowOf(p.name)'.size = << fmtSize(Max(Known(p.name), p.bytes)) >>
                       /\ RowOf(p.name)'.displayName = p.name \o " /" ]_vars

\* a child was finalized while its delta was waiting for the flush timer: the
\* timer is still pending, the delta is gone and the row is exact
C17_Witness ==
    /\ flushTimer # NoTimer
    /\ pendingProgress = EmptyMap
    /\ ~epoch.summary
    /\ ~epoch.cleared
    /\ \E n \in epoch.finalized \cap epoch.incomplete :
           /\ n \notin scanningDirs
           /\ Known(n) > 0
           /\ RowOf(n).size = << fmtSize(Known(n)) >>

\* C18: a Progress event of the active identity for a name that is not in
\* scanningSet changes nothing: pendingDeltas, knownBytes, runningTotal, the
\* rows and the flush timer are as before.
C18_UnrequestedProgressIgnored ==
    [][ \A p \in ProgressEvents.progress :
            (~Stale(p) /\ p.name \notin scanningDirs /\ OnProgress(p)) =>
                UNCHANGED << pendingProgress, knownDirBytes, runningTotal, totalBytes, rows,
                             flushTimer, lastFlushedBytes, currentFlushScanKey,
                             scanningDirs >> ]_vars

\* a Progress event was ignored for a name that a ChildComplete had finalized
\* while the flush timer was pending
C18_Witness ==
    /\ order.ignored = "finalized"
    /\ flushTimer # NoTimer
    /\ scanningDirs # {}

\* C19: an accepted Progress(name, bytes) merges max(previous pending value
\* or 0, bytes): when it only schedules the flush, pendingDeltas[name] is
\* that maximum, the other entries are untouched and knownBytes, runningTotal
\* and the rows do not change; when it flushes at once, that maximum is what
\* the flush applies to knownBytes[name].
C19_ProgressMergesMax ==
    [][ \A p \in ProgressEvents.progress :
            (~Stale(p) /\ p.name \in scanningDirs /\ OnProgress(p)) =>
                IF flushTimer' # NoTimer
                THEN /\ pendingProgress' =
                            MapSet(pendingProgress, p.name,
                                   Max(MapGet(pendingProgress, p.name, 0), p.bytes))
                     /\ UNCHANGED << knownDirBytes, runningTotal, totalBytes, rows >>
                ELSE /\ pendingProgress' = EmptyMap
                     /\ KnownAfter(p.name) =
                            Max(Known(p.name), Max(MapGet(pendingProgress, p.name, 0), p.bytes))
                     /\ runningTotal' - runningTotal = KnownAfter(p.name) - Known(p.name) ]_vars

\* an accepted Progress carried less than what was pending for its name, and
\* the pending value was kept
C19_Witness ==
    /\ order.last # <<>>
    /\ order.last.name \in DOMAIN pendingProgress
    /\ order.last.bytes < pendingProgress[order.last.name]
    /\ flushTimer # NoTimer

\* C20: an accepted Progress event is flushed at once exactly when its merged
\* value exceeds the value of the last flush of this epoch by more than the
\* burst threshold of 8 MiB; otherwise it only schedules the throttled flush.
C20_BurstFlushesAtOnce ==
    [][ \A p \in ProgressEvents.progress :
            (~Stale(p) /\ p.name \in scanningDirs /\ OnProgress(p)) =>
                ( flushTimer' = NoTimer
                  <=> Max(MapGet(pendingProgress, p.name, 0), p.bytes) - order.lastFlush
                          > BurstThreshold ) ]_vars

\* the latest navigation t waits for the answer of get_cached_sizes, and the
\* step paints a level
AwaitingCache(t) ==
    /\ t = loadSeq
    /\ loads[t].pc = "cache"
    /\ epoch'.n # epoch.n

\* the prefill of the latest navigation t, for the cache reply cached
PrefillOf(t, cached) ==
    /\ t = loadSeq
    /\ loads[t].pc = "cache"
    /\ Prefill(t, Sorted(loads[t].path, loads[t].view), cached, FALSE)

CacheReplies(t) ==
    [DOMAIN ChildDirs(Sorted(loads[t].path, loads[t].view)) -> CacheOpts]

\* C23: after the prefill of a navigation, runningTotal is the sum of the
\* sizes of the visible files of the level plus the sum of the cached bytes of
\* every visible child directory, completed or not, a missing record counting
\* as 0 (and all of them missing when get_cached_sizes rejects).
C23_PrefillTotal ==
    [][ \A t \in DOMAIN loads :
          AwaitingCache(t) =>
            /\ \A cached \in CacheReplies(t) :
                  PrefillOf(t, cached) =>
                      /\ runningTotal' = VisibleFileBytes(loads[t].path) +
                            SumMap([i \in DOMAIN cached |->
                                       IF cached[i] = Null THEN 0 ELSE cached[i][1]])
                      /\ totalBytes' = runningTotal'
            /\ CacheFail(t) => runningTotal' = VisibleFileBytes(loads[t].path) ]_vars

\* the first level was painted from a completed record for X and an incomplete
\* one for Y, one byte each, next to one visible file byte, and no event has
\* been merged since
C23_Witness ==
    /\ epoch.n = 1
    /\ ~epoch.cacheFailed
    /\ Painted
    /\ currentPath = RootPath
    /\ knownDirBytes = [n \in {"X", "Y"} |-> 1]
    /\ scanningDirs = {"Y"}
    /\ epoch.finalized = {}
    /\ ~epoch.summary
    /\ currentFlushScanKey = ""
    /\ runningTotal = 3

\* the bytes a cache reply holds for the child directory n, read off the reply
ReplyBytes(childDirs, cached, n) ==
    LET record == cached[CHOOSE k \in DOMAIN childDirs : childDirs[k].name = n]
    IN  IF record = Null THEN 0 ELSE record[1]

ProvisionalLabel(b) == << fmtSize(b), IF b # 0 THEN " " ELSE "", ScanMarker >>

FinalLabel(b) == << fmtSize(b) >>

\* C24: after the prefill of a navigation, scanningSet is exactly the set of
\* visible child directories whose cache record is missing or not completed;
\* each of them has a provisional label with the scanning marker, every child
\* with a completed record has its final label without a marker, and knownBytes
\* holds the cached bytes (0 if missing) of every child directory.
C24_PrefillScanningSet ==
    [][ \A t \in DOMAIN loads : AwaitingCache(t) => \A cached \in CacheReplies(t) :
          PrefillOf(t, cached) =>
            LET dirs == ChildDirs(Sorted(loads[t].path, loads[t].view))
                open == ReplyIncomplete(dirs, cached)
            IN  /\ { dirs[i].name : i \in DOMAIN dirs } = VisibleDirs(loads[t].path)
                /\ scanningDirs' = open
                /\ DOMAIN knownDirBytes' = VisibleDirs(loads[t].path)
                /\ \A n \in VisibleDirs(loads[t].path) :
                      /\ knownDirBytes'[n] = ReplyBytes(dirs, cached, n)
                      /\ n \in open =>
                            /\ RowOf(n)'.size = ProvisionalLabel(ReplyBytes(dirs, cached, n))
                            /\ HasMarker(RowOf(n)')
                      /\ n \notin open =>
                            /\ RowOf(n)'.size = FinalLabel(ReplyBytes(dirs, cached, n))
                            /\ ~HasMarker(RowOf(n)') ]_vars

\* the first level was painted from a reply without a record for X and with a
\* completed record of one byte for Y, and no event has been merged since
C24_Witness ==
    /\ epoch.n = 1
    /\ ~epoch.cacheFailed
    /\ Painted
    /\ currentPath = RootPath
    /\ scanningDirs = {"X"}
    /\ knownDirBytes = [n \in {"X", "Y"} |-> IF n = "X" THEN 0 ELSE 1]
    /\ RowOf("X").size = ProvisionalLabel(0)
    /\ RowOf("Y").size = FinalLabel(1)
    /\ epoch.finalized = {}
    /\ ~epoch.summary
    /\ currentFlushScanKey = ""

\* C28: when navigations N1 and then N2 are started and their listing and
\* cache replies arrive in any order, N1 never paints: a reply to a navigation
\* that is no longer the latest leaves rows, itemsCount, runningTotal,
\* knownBytes, scanningSet and nameToRowIndex as they are, every prefill is the
\* one of the most recently started navigation, and the navigation token
\* strictly increases with every navigation.
C28_OnlyLatestPaints ==
    [][ /\ \A t \in DOMAIN loads :
              ( /\ t # loadSeq
                /\ ListReply(t) \/ ListFail(t) \/ CacheReply(t) \/ CacheFail(t) ) =>
                  UNCHANGED << rows, itemsCount, runningTotal, totalBytes, knownDirBytes,
                               scanningDirs, nameToRowIndex >>
        /\ epoch'.n # epoch.n => (epoch'.token = loadSeq /\ loadSeq' = loadSeq)
        /\ (itemsCount' # itemsCount \/ nameToRowIndex' # nameToRowIndex) =>
              epoch'.n # epoch.n
        /\ loadSeq' # loadSeq =>
              (loadSeq' > loadSeq /\ \A t \in DOMAIN loads : t < loadSeq') ]_vars

\* the cache reply of the first navigation came after the second navigation had
\* started, and the only level painted so far is the second navigation's
C28_Witness ==
    /\ 1 \in order.delivered
    /\ epoch.n = 1
    /\ epoch.token = 2
    /\ currentPath = "/h/X"

\* the row the JavaScript index i designates (row 0 is the parent row)
RowAt(i) == rows[i + 1]

IndexMatchesRows ==
    \A n \in DOMAIN nameToRowIndex :
        /\ nameToRowIndex[n] >= 1
        /\ nameToRowIndex[n] + 1 \in DOMAIN rows
        /\ ~RowAt(nameToRowIndex[n]).specialUp
        /\ RowAt(nameToRowIndex[n]).realName = n

\* C29: nameToRowIndex is replaced as a whole by each navigation's prefill and
\* never modified by an event handler or a flush; in every state each entry
\* name -> i has i >= 1 (row 0 is the synthetic parent row) and the row at
\* index i of the painted rows has that name.
C29_IndexRebuiltAtomically ==
    /\ []IndexMatchesRows
    /\ [][ /\ nameToRowIndex' # nameToRowIndex => epoch'.n # epoch.n
           /\ epoch'.n # epoch.n =>
                 /\ DOMAIN nameToRowIndex' =
                        { rows'[i].realName : i \in DOMAIN rows' \ {1} }
                 /\ Len(rows') = Cardinality(DOMAIN nameToRowIndex') + 1 ]_vars

\* a second level has been painted and its two files are indexed behind the
\* parent row
C29_Witness ==
    /\ epoch.n = 2
    /\ currentPath = "/h/X"
    /\ nameToRowIndex = [n \in {"a.txt", "b.md"} |-> IF n = "a.txt" THEN 1 ELSE 2]
    /\ rows[1].specialUp

\* C27: from the moment a navigation makes its identity the active one until
\* its prefill has rebuilt the state, no incoming event and no flush changes
\* runningTotal, knownBytes, pendingDeltas or the rows, which still describe
\* the previously listed directory.
C27_SupersededAtOnce ==
    [][ ( /\ loadSeq \in DOMAIN loads
          /\ loads[loadSeq].pc \in {"list", "cache"}
          /\ loads' = loads ) =>
            UNCHANGED << runningTotal, knownDirBytes, pendingProgress, rows >> ]_vars

\* the timer that fires was scheduled under the active identity
ActiveFlush ==
    /\ timers # <<>>
    /\ timers[1] = currentScanKey
    /\ TimerFire

\* C21: a flush for the active identity processes every pending name in one
\* batch: each pending name still in scanningSet gets knownBytes
\* max(knownBytes, pending value), names whose value does not change are
\* skipped, the sum of the positive per-name deltas is added to runningTotal
\* once, and pendingDeltas is left empty.
C21_FlushIsOneBatch ==
    [][ ActiveFlush =>
          LET raised == { n \in DOMAIN pendingProgress :
                            n \in scanningDirs /\ pendingProgress[n] > Known(n) }
          IN  /\ pendingProgress' = EmptyMap
              /\ \A n \in DOMAIN pendingProgress :
                    n \in scanningDirs => KnownAfter(n) = Max(Known(n), pendingProgress[n])
              /\ \A n \in (DOMAIN knownDirBytes \cup DOMAIN knownDirBytes') \ raised :
                    /\ n \in DOMAIN knownDirBytes
                    /\ n \in DOMAIN knownDirBytes'
                    /\ knownDirBytes'[n] = knownDirBytes[n]
              /\ runningTotal' = runningTotal +
                    SumOver([n \in raised |-> pendingProgress[n] - Known(n)], raised)
              /\ totalBytes' = IF raised = {} THEN totalBytes ELSE runningTotal'
              /\ raised = {} => rows' = rows
              /\ \A n \in raised : RowOf(n)'.size =
                    << fmtSize(pendingProgress[n]), " ", ScanMarker >>
              /\ \A i \in DOMAIN rows :
                    rows[i].realName \notin raised => rows'[i] = rows[i] ]_vars

\* one flush has just raised the known bytes of both X and Y
C21_Witness ==
    /\ order.delivered = {"X", "Y"}
    /\ pendingProgress = EmptyMap
    /\ timers = <<>>
    /\ Known("X") > 0
    /\ Known("Y") > 0
    /\ runningTotal = epoch.levelFiles + Known("X") + Known("Y")

\* C22: handling a Summary(reported) of the active identity sets runningTotal
\* to max(runningTotal, reported), clears scanningSet and pendingDeltas without
\* applying the pending values (knownBytes stays as it is), and cancels any
\* pending flush timer.
C22_SummaryClosesEpoch ==
    [][ \A p \in AllEvents.summary :
          (~Stale(p) /\ OnSummary(p)) =>
              /\ runningTotal' = Max(runningTotal, p.bytes)
              /\ totalBytes' = runningTotal'
              /\ scanningDirs' = {}
              /\ pendingProgress' = EmptyMap
              /\ knownDirBytes' = knownDirBytes
              /\ flushTimer' = NoTimer
              /\ timers' = <<>> ]_vars

\* in the first epoch a Progress for Y was waiting for its flush when the
\* Summary came: the pending value was never applied (Y is still known as 0,
\* no ChildComplete, no failure handler and no navigation could have dropped it)
C22_Witness ==
    /\ epoch.n = 1
    /\ loadSeq = 1
    /\ epoch.summary
    /\ ~epoch.cleared
    /\ epoch.finalized = {}
    /\ "Y" \in epoch.incomplete
    /\ currentFlushScanKey = currentScanKey
    /\ lastFlushedBytes = 0
    /\ Known("Y") = 0
    /\ scanningDirs = {}
    /\ pendingProgress = EmptyMap
    /\ timers = <<>>

\* C25: at most one flush timer is pending at any time, a timer that fires is
\* gone, and right after an epoch reset, a Summary, an immediate burst flush
\* or a teardown no flush timer is pending; a timer scheduled under one
\* identity applies nothing to knownBytes or runningTotal when it fires under
\* another active identity.
C25_TimersSingleShot ==
    /\ [](Len(timers) <= 1 /\ (flushTimer = NoTimer <=> timers = <<>>))
    /\ [][ /\ epoch'.n # epoch.n => timers' = <<>>
           /\ \A p \in ProgressEvents.summary :
                 (~Stale(p) /\ OnSummary(p)) => timers' = <<>>
           /\ \A p \in ProgressEvents.progress :
                 ( /\ ~Stale(p)
                   /\ p.name \in scanningDirs
                   /\ Max(MapGet(pendingProgress, p.name, 0), p.bytes) - lastFlushedBytes
                          >= BurstThreshold
                   /\ OnProgress(p) ) =>
                     timers' = <<>>
           /\ EffectCleanup => timers' = <<>>
           /\ TimerFire => (timers # <<>> /\ timers' = <<>>)
           /\ (TimerFire /\ timers # <<>> /\ timers[1] # currentScanKey) =>
                 UNCHANGED << knownDirBytes, runningTotal, totalBytes, rows >> ]_vars

\* a timer scheduled for Y in the first epoch has fired after the next
\* navigation had made another identity the active one: the pending value is
\* gone and Y is still known as 0
C25_Witness ==
    /\ epoch.n = 1
    /\ loadSeq = 2
    /\ ~epoch.cleared
    /\ "Y" \in scanningDirs
    /\ Known("Y") = 0
    /\ currentFlushScanKey # ""
    /\ currentFlushScanKey # currentScanKey
    /\ pendingProgress = EmptyMap
    /\ timers = <<>>

\* C26: while a flush timer is pending, Progress events for one name that stay
\* below the burst threshold cause no row or runningTotal update and schedule
\* no further timer; the single flush that follows sets knownBytes[name] to
\* the maximum byte count observed among them, clamped with the prior known
\* value.
C26_CoalescingKeepsMaximum ==
    [][ /\ \A p \in ProgressEvents.progress :
              ( /\ timers # <<>>
                /\ timers[1] = p.scan_key
                /\ ~Stale(p)
                /\ p.name \in scanningDirs
                /\ order.seen > 0
                /\ Max(order.seen, p.bytes) < BurstThreshold
                /\ OnProgress(p) ) =>
                  /\ UNCHANGED << rows, runningTotal, totalBytes, knownDirBytes >>
                  /\ Len(timers') <= Len(timers)
        /\ \A n \in EventNames :
              ( /\ ActiveFlush
                /\ order.seen > 0
                /\ order.seen < BurstThreshold
                /\ n \in scanningDirs ) =>
                  KnownAfter(n) = Max(Known(n), order.seen) ]_vars

\* a name with its letters in lower case
FoldCase(n) ==
    CASE n = "A.TXT" -> "a.txt"
      [] n = "X" -> "x"
      [] n = "Y" -> "y"
      [] OTHER -> n

\* alphabetical rank of a lower-case name
Alphabetical(n) ==
    CASE n = ".cfg" -> 1
      [] n = "a.txt" -> 2
      [] n = "b.md" -> 3
      [] n = "x" -> 4
      [] n = "y" -> 5
      [] OTHER -> 6

ByName(a, b) == Sign(Alphabetical(FoldCase(a.name)) - Alphabetical(FoldCase(b.name)))

\* the order of a and b by the selected key alone
ByKey(a, b, k) ==
    CASE k = "name" -> ByName(a, b)
      [] k = "size" -> Sign(a.size - b.size)
      [] k = "date" -> Sign(ModKey(a.modified) - ModKey(b.modified))
      [] k = "type" ->
           IF extOf(a.name) # extOf(b.name)
           THEN Sign(ExtKey(extOf(a.name)) - ExtKey(extOf(b.name)))
           ELSE ByName(a, b)

\* the order the claim gives to a and b: the partition first, then the key with
\* the direction applied to it
Expected(a, b, v) ==
    IF v.dirsFirst /\ a.is_dir # b.is_dir
    THEN (IF a.is_dir THEN -1 ELSE 1)
    ELSE IF v.sortDir = "desc" THEN -ByKey(a, b, v.sortKey) ELSE ByKey(a, b, v.sortKey)

\* C30: the comparator orders entries by the directories-first partition when
\* it is enabled (every directory before every file, for both directions),
\* then by the selected key (name, size, date, or extension then name for
\* type) with the direction inversion applied to the key comparison only; name
\* comparisons are case-insensitive.  The sorted listing is the listing in
\* that order.
C30_ComparatorOrder ==
    /\ \A a, b \in SortPool : Sign(compare(a, b, order.view)) = Expected(a, b, order.view)
    /\ order.sorted # <<>> =>
          /\ { order.sorted[i] : i \in DOMAIN order.sorted } = SortPool
          /\ Len(order.sorted) = Cardinality(SortPool)
          /\ \A i, j \in DOMAIN order.sorted :
                i < j => Expected(order.sorted[i], order.sorted[j], order.view) <= 0
          /\ order.view.dirsFirst =>
                \A i, j \in DOMAIN order.sorted :
                    (order.sorted[i].is_dir /\ ~order.sorted[j].is_dir) => i < j

\* a listing has been sorted by name, descending, directories first: the
\* directories still come first, in descending order, and the two files whose
\* names differ by case only are neighbours in the order of the listing
C30_Witness ==
    /\ order.view = [showHidden |-> FALSE, sortKey |-> "name", sortDir |-> "desc",
                     dirsFirst |-> TRUE]
    /\ order.sorted # <<>>
    /\ [i \in DOMAIN order.sorted |-> order.sorted[i].name] =
           << "Y", "X", "b.md", "A.TXT", "a.txt" >>
    /\ \E i, j \in DOMAIN order.input :
           i < j /\ order.input[i].name = "A.TXT" /\ order.input[j].name = "a.txt"

\* C31: two entries that compare equal on the selected sort key are ordered by
\* case-insensitive name, so the sorted listing is determined by the content
\* of the listing and the view, whatever the order in which the Directory
\* Lister returned the entries.
C31_OrderIndependentOfListing ==
    order.sorted # <<>> =>
        /\ \A i, j \in DOMAIN order.sorted :
              ( /\ i < j
                /\ ~(order.view.dirsFirst /\ order.sorted[i].is_dir # order.sorted[j].is_dir)
                /\ ByKey(order.sorted[i], order.sorted[j], order.view.sortKey) = 0 ) =>
                  \/ ByName(order.sorted[i], order.sorted[j]) <= 0
                  \/ order.view.sortDir = "desc"
        /\ \A s \in SortInputs \ {order.input} :
              SortEntries(FilterHidden(s, order.view), order.view) = order.sorted

\* C32: once a Summary of the active identity has been accepted, any later
\* ChildComplete or Progress event of the same identity in the same epoch
\* leaves runningTotal unchanged.
C32_SettledAfterSummary ==
    [][ ( /\ epoch.summary
          /\ epoch.token = loadSeq
          /\ \/ \E p \in AllEvents.child : ~Stale(p) /\ OnChild(p)
             \/ \E p \in AllEvents.progress : ~Stale(p) /\ OnProgress(p) ) =>
            runningTotal' = runningTotal ]_vars

\* C33: handling the same ChildComplete(name, bytes) event a second time in
\* one epoch changes neither runningTotal nor knownBytes nor scanningSet.
C33_ChildIdempotent ==
    [][ \A e \in order.pool :
          ( /\ e.ch = ChChild
            /\ e \in order.delivered
            /\ epoch.n = order.round
            /\ OnChild([scan_key |-> e.scan_key, name |-> e.name, bytes |-> e.bytes]) ) =>
              /\ runningTotal' = runningTotal
              /\ knownDirBytes' = knownDirBytes
              /\ scanningDirs' = scanningDirs ]_vars

\* a ChildComplete that raised the total has been delivered a second time
C33_Witness ==
    /\ order.again
    /\ order.round = 1
    /\ \E e \in order.delivered :
          /\ e.ch = ChChild
          /\ Known(e.name) = e.bytes
          /\ \A i \in DOMAIN order.cache : order.cache[i] = Null
          /\ e.name \notin scanningDirs

\* C34: in every reachable state of an epoch runningTotal is at least the
\* level's file bytes plus the sum of knownBytes over all names, and the two
\* are equal as long as no Summary has been accepted in that epoch.
C34_TotalCoversKnown ==
    LET excess == runningTotal - epoch.levelFiles
                    - SumOver(knownDirBytes, DOMAIN knownDirBytes)
    IN  epoch.n > 0 =>
            /\ excess >= 0
            /\ epoch.summary \/ excess = 0

\* no Summary yet: a directory that is still scanning has known bytes, a
\* child has finished, and the total is exactly the files plus the known bytes
C34_Witness ==
    /\ ~epoch.summary
    /\ epoch.finalized # {}
    /\ \E n \in scanningDirs : Known(n) > 0
    /\ runningTotal > epoch.levelFiles
    /\ runningTotal = epoch.levelFiles + SumMap(knownDirBytes)

\* C35: within one epoch the row of a directory finalized by ChildComplete
\* carries no scanning marker, and no later Progress event, pending delta or
\* timer flush re-adds the marker, changes the row's size label or puts the
\* name back into scanningSet.
C35_FinalizedStaysExact ==
    /\ [](\A n \in epoch.finalized \cap DOMAIN nameToRowIndex :
             ~HasMarker(RowOf(n)) /\ n \notin scanningDirs)
    /\ [][ ( \/ \E p \in ProgressEvents.progress : OnProgress(p)
             \/ TimerFire ) =>
              \A n \in epoch.finalized \cap DOMAIN nameToRowIndex :
                  /\ RowOf(n)'.size = RowOf(n).size
                  /\ RowOf(n)'.displayName = RowOf(n).displayName
                  /\ n \notin scanningDirs' ]_vars

\* a Progress event for a directory that was scanning arrived after its
\* ChildComplete and was ignored: the row shows the exact size
C35_Witness ==
    /\ order.ignored = "finalized"
    /\ ~epoch.summary
    /\ \E n \in epoch.finalized \cap epoch.incomplete :
          /\ n \in DOMAIN nameToRowIndex
          /\ Known(n) > 0
          /\ RowOf(n).size = << fmtSize(Known(n)) >>

\* C36: ensure_path_sizer is only ever invoked by the loadPath call that is
\* the most recently started one at the moment of the invocation; a call
\* superseded while it waits for the events-ready barrier never invokes it.
C36_StartOnlyForLatest ==
    \A c \in ensureCalls : c.cur

\* C37: a loadPath call whose list_dir fails leaves the active scan identity
\* as it was before the call: when the call before it painted the displayed
\* directory, the identity is still that directory's after the failure.
C37_FailedListingKeepsIdentity ==
    [][ \A t \in DOMAIN loads :
          ( /\ ListFail(t)
            /\ epoch.n > 0
            /\ epoch.token = t - 1 ) =>
              currentScanKey' = scanKeyOf(currentPath, DefaultView) ]_vars

C39_SelectionWithinRows ==
    \A i \in order.selected : 1 <= i /\ i < order.rowCount
====
